---- MODULE Spec2Model ----
(***************************************************************************)
(* Mission state machine of ImplicitEnhancer (implicit_enhancer.js) and    *)
(* the shared task ledger SharedMemory (team/shared_memory.js).            *)
(*                                                                         *)
(* JavaScript strings are sequences of one-character strings, so that      *)
(* String.includes, RegExp.test and String.slice are computed and not      *)
(* assumed.  Objects that JavaScript holds by reference (plan steps and    *)
(* their lists) live in two heaps and are named by integer references.     *)
(***************************************************************************)
EXTENDS Integers, Sequences, FiniteSets, TLC

VARIABLES
    activeMission,  \* this.activeMission
    stepHeap,       \* the step objects, by reference
    listHeap,       \* the preconditions / action_cmd / verify_cmd arrays, by reference
    mutations,      \* how many times a holder has mutated a step or a list
    mOp,            \* the last operation on the ImplicitEnhancer
    mArg,           \* its arguments
    mPrev,          \* the mission, read in full, as that operation found it
    coop,           \* the plan length and the evaluations since activation, while all obeyed
    file,           \* the ledger file (team_state.json)
    now,            \* Date.now()
    lOp,            \* the last operation on the ledger
    lArg,           \* its arguments
    lRet,           \* what it returned: a sequence of tasks, <<>> for null
    proc,           \* the agent processes on the ledger file: where each is in its call
    raced,          \* some process has saved a record it loaded before another's save
    world,          \* this.agent.bot: inventory, nearby blocks, registry, recipes
    cOp,            \* the last call of the override chain or of the normalizer
    cArg,           \* the text it was given
    cRet,           \* what it returned
    lastClaimedTaskId, \* this.lastClaimedTaskId
    turn            \* the last sendRequest turn: what it was given, did and returned

missionVars == <<activeMission, stepHeap, listHeap, mutations, mOp, mArg, mPrev, coop>>
ledgerVars == <<file, now, lOp, lArg, lRet>>
raceVars == <<proc, raced>>
callVars == <<world, cOp, cArg, cRet>>
turnVars == <<lastClaimedTaskId, turn>>
vars == <<activeMission, stepHeap, listHeap, mutations, mOp, mArg, mPrev, coop,
          file, now, lOp, lArg, lRet, proc, raced, world, cOp, cArg, cRet,
          lastClaimedTaskId, turn>>

(***************************************************************************)
(* Bounds of the model.                                                    *)
(***************************************************************************)
MaxFailures == 3
MaxMutations == 1
MaxInfo == 2
MaxTasks == 2
MaxClock == 1
RandomSpan == 2
MaxTurns == 2

(***************************************************************************)
(* JavaScript values.                                                      *)
(***************************************************************************)
\* undefined where a string (sequence of characters) is expected
UndefinedText == <<"<undefined>">>
\* undefined / null where a name (an atomic string) is expected
Undef == "<undefined>"
Null == "<null>"
\* undefined where an object reference is expected
NoRef == 0 - 1

\* JavaScript truthiness of a string value: undefined and '' are falsy
TruthyText(s) == s # UndefinedText /\ s # <<>>
TruthyName(n) == n # Undef /\ n # Null /\ n # ""

Min(a, b) == IF a < b THEN a ELSE b

UpperLetters == <<"A","B","C","D","E","F","G","H","I","J","K","L","M",
                  "N","O","P","Q","R","S","T","U","V","W","X","Y","Z">>
LowerLetters == <<"a","b","c","d","e","f","g","h","i","j","k","l","m",
                  "n","o","p","q","r","s","t","u","v","w","x","y","z">>

\* the /i flag: characters are compared after case folding
LowerChar(c) ==
    IF \E i \in 1..Len(UpperLetters) : UpperLetters[i] = c
    THEN LowerLetters[CHOOSE i \in 1..Len(UpperLetters) : UpperLetters[i] = c]
    ELSE c

ToLower(s) == [i \in 1..Len(s) |-> LowerChar(s[i])]

\* String.prototype.includes
Includes(s, sub) ==
    \E i \in 0..(Len(s) - Len(sub)) : SubSeq(s, i + 1, i + Len(sub)) = sub

\* the alternatives of /error|failed|fail|cannot/i
FailureKeywords ==
    { <<"e","r","r","o","r">>, <<"f","a","i","l","e","d">>,
      <<"f","a","i","l">>, <<"c","a","n","n","o","t">> }

\* /error|failed|fail|cannot/i.test(responseText)
ErrorDetected(text) == \E k \in FailureKeywords : Includes(ToLower(text), k)

(***************************************************************************)
(* Texts the model draws model output from.                                *)
(***************************************************************************)
cmdA == <<"!","a">>
cmdB == <<"!","b">>
cmdV == <<"!","v">>
CmdCollectCobble ==
    <<"!", "c", "o", "l", "l", "e", "c", "t", "B", "l", "o", "c", "k", "s",
      "(", "\"", "c", "o", "b", "b", "l", "e", "s", "t", "o", "n", "e", "\"",
      ",", " ", "1", "2", ")">>
CollectTwelveStone ==
    <<"!", "c", "o", "l", "l", "e", "c", "t", "B", "l", "o", "c", "k", "s",
      "(", "\"", "s", "t", "o", "n", "e", "\"", ",", " ", "1", "2", ")">>

\* what the output says it issued, and what it reports about the outcome
IssuedParts == { <<>>, <<"o","k">>, cmdA, cmdB, cmdA \o cmdB }
OutcomeParts ==
    { <<>>, <<"E","r","r","o","r">>, <<"F","A","I","L">>,
      <<"F","a","i","l","e","d">>, <<"c","a","n","n","o","t">> }

SeqsUpTo(S, n) == UNION { [1..k -> S] : k \in 0..n }

\* the content of the last assistant turn, undefined when there is none
Responses == {UndefinedText} \cup { c \o o : c \in IssuedParts, o \in OutcomeParts }

(***************************************************************************)
(* Heap layout.  Ref(owner, i, f): owner 0 is the mission, owner e >= 1 is *)
(* training example e; i is the step number; f = 0 is the step object,     *)
(* f = 1, 2, 3 its preconditions, action_cmd and verify_cmd lists.         *)
(***************************************************************************)
Ref(owner, i, f) == owner * 100 + i * 10 + f

FPre == 1
FAct == 2
FVer == 3
ListFields == {FPre, FAct, FVer}

ExampleIds == {1, 2, 3}
MaxPlanLen == 2
\* an example of crafting_examples.json whose one step gathers cobblestone
ToolPlan == 4

\* the examples as getRelevantInfo returns them: {...ex, plan: ex.plan || []}
Examples ==
    [e \in ExampleIds \cup {ToolPlan} |->
        CASE e = 1 -> [name |-> "house", slug |-> Undef,
                       plan |-> <<Ref(1, 1, 0), Ref(1, 2, 0)>>]
          [] e = 2 -> [name |-> Undef, slug |-> "pickaxe",
                       plan |-> <<Ref(2, 1, 0)>>]
          [] e = 3 -> [name |-> Undef, slug |-> Undef, plan |-> <<>>]
          [] e = ToolPlan -> [name |-> "tools", slug |-> Undef,
                              plan |-> <<Ref(ToolPlan, 1, 0)>>]]

StepRefs == { Ref(o, i, 0) : o \in {0, ToolPlan} \cup ExampleIds, i \in 1..MaxPlanLen }
ListRefs == { Ref(o, i, f) : o \in {0, ToolPlan} \cup ExampleIds, i \in 1..MaxPlanLen, f \in ListFields }

NoStep == [goal |-> Undef, preconditions |-> NoRef, action_cmd |-> NoRef, verify_cmd |-> NoRef]

InitStepHeap ==
    [r \in StepRefs |->
        CASE r = Ref(1, 1, 0) -> [goal |-> "collect", preconditions |-> Ref(1, 1, FPre),
                                  action_cmd |-> Ref(1, 1, FAct), verify_cmd |-> NoRef]
          [] r = Ref(1, 2, 0) -> [goal |-> "craft", preconditions |-> NoRef,
                                  action_cmd |-> Ref(1, 2, FAct), verify_cmd |-> Ref(1, 2, FVer)]
          [] r = Ref(2, 1, 0) -> [goal |-> Undef, preconditions |-> Ref(2, 1, FPre),
                                  action_cmd |-> NoRef, verify_cmd |-> NoRef]
          [] r = Ref(ToolPlan, 1, 0) ->
                 [goal |-> "mine", preconditions |-> NoRef,
                  action_cmd |-> Ref(ToolPlan, 1, FAct), verify_cmd |-> NoRef]
          [] OTHER -> NoStep]

InitListHeap ==
    [r \in ListRefs |->
        CASE r = Ref(1, 1, FPre) -> << <<"p">> >>
          [] r = Ref(1, 1, FAct) -> <<cmdA, cmdB>>
          [] r = Ref(1, 2, FAct) -> <<cmdB>>
          [] r = Ref(1, 2, FVer) -> <<cmdV>>
          [] r = Ref(2, 1, FPre) -> << <<"q">> >>
          [] r = Ref(ToolPlan, 1, FAct) -> <<CmdCollectCobble>>
          [] OTHER -> <<>>]

StepField(step, f) ==
    CASE f = FPre -> step.preconditions
      [] f = FAct -> step.action_cmd
      [] f = FVer -> step.verify_cmd

\* what a reader of a list, a step, the mission and the examples sees
ListView(lh, r) == IF r = NoRef THEN <<UndefinedText>> ELSE lh[r]

StepView(sh, lh, r) ==
    [goal |-> sh[r].goal,
     preconditions |-> ListView(lh, sh[r].preconditions),
     action_cmd |-> ListView(lh, sh[r].action_cmd),
     verify_cmd |-> ListView(lh, sh[r].verify_cmd)]

MissionViewOf(am, sh, lh) ==
    [isActive |-> am.isActive,
     planName |-> am.planName,
     steps |-> [i \in 1..Len(am.steps) |-> StepView(sh, lh, am.steps[i])],
     currentStep |-> am.currentStep,
     failures |-> am.failures]

MissionView == MissionViewOf(activeMission, stepHeap, listHeap)

ExampleView ==
    [e \in ExampleIds |->
        [name |-> Examples[e].name,
         slug |-> Examples[e].slug,
         plan |-> [i \in 1..Len(Examples[e].plan) |-> StepView(stepHeap, listHeap, Examples[e].plan[i])]]]

(***************************************************************************)
(* Intents and retrieved examples handed to improvePrompt.                 *)
(***************************************************************************)
IntentTypes == {"BUILD", "CRAFT", "COOK", "GENERAL"}
\* an intent is <<>> (null) or <<[type |-> t]>>
IntentArgs == {<<>>} \cup { <<[type |-> t]>> : t \in IntentTypes }
InfoArgs == SeqsUpTo(ExampleIds, MaxInfo)

(***************************************************************************)
(* ImplicitEnhancer: mission state                                         *)
(***************************************************************************)
\* constructor / resetMission
IdleMission ==
    [isActive |-> FALSE, planName |-> Null, steps |-> <<>>, currentStep |-> 0, failures |-> 0]

\* step?.action_cmd?.[0] for steps[currentStep]
ExpectedCmd(am, sh, lh) ==
    IF am.currentStep + 1 \in 1..Len(am.steps)
    THEN LET step == sh[am.steps[am.currentStep + 1]]
         IN IF step.action_cmd # NoRef /\ Len(lh[step.action_cmd]) > 0
            THEN lh[step.action_cmd][1]
            ELSE UndefinedText
    ELSE UndefinedText

\* lastResponseText || ''
ResponseText(text) == IF TruthyText(text) THEN text ELSE <<>>

LikelySuccessNoErrorCheck(expectedCmd, text) ==
    IF TruthyText(expectedCmd) THEN Includes(ResponseText(text), expectedCmd) ELSE TRUE

LikelySuccess(expectedCmd, text) ==
    LET responseText == ResponseText(text)
        errorDetected == ErrorDetected(responseText)
        issuedExpected == IF TruthyText(expectedCmd)
                          THEN Includes(responseText, expectedCmd) ELSE TRUE
    IN issuedExpected /\ ~errorDetected

MissionFinishedStrict(cur, n) == cur > n

\* this.activeMission.currentStep >= steps.length
MissionFinished(cur, n) == cur >= n

EvaluateRetreat(am, success) ==
    IF success
    THEN [am EXCEPT !.currentStep = @ + 1, !.failures = 0]
    ELSE [am EXCEPT !.failures = @ + 1, !.currentStep = IF @ > 0 THEN @ - 1 ELSE 0]

EvaluateAbortOnFailures(am, success) ==
    IF success
    THEN [am EXCEPT !.currentStep = @ + 1, !.failures = 0]
    ELSE IF am.failures + 1 >= 2 THEN [am EXCEPT !.currentStep = Len(am.steps)]
         ELSE [am EXCEPT !.failures = @ + 1]

\* the if/else on likelySuccess
Evaluate(am, success) ==
    IF success
    THEN [am EXCEPT !.currentStep = @ + 1, !.failures = 0]
    ELSE [am EXCEPT !.failures = @ + 1]

\* the success heuristic as the specification words it: no failure keyword
\* in the output and, if the step has a first candidate command, the
\* command's literal text in the output
NoFailureKeyword(text) ==
    ~\E k \in FailureKeywords : \E i \in 1..(Len(text) - Len(k) + 1) :
        ToLower(SubSeq(text, i, i + Len(k) - 1)) = k

FirstCandidate(step) ==
    IF step.action_cmd # <<UndefinedText>> /\ Len(step.action_cmd) > 0
    THEN step.action_cmd[1] ELSE UndefinedText

SpecSuccess(prev, text) ==
    LET out == IF text = UndefinedText THEN <<>> ELSE text
        cmd == FirstCandidate(prev.steps[prev.currentStep + 1])
    IN /\ NoFailureKeyword(out)
       /\ cmd \in {UndefinedText, <<>>} \/
          \E i \in 0..(Len(out) - Len(cmd)) : \A k \in 1..Len(cmd) : out[i + k] = cmd[k]

\* the evaluations since activation: k of them, each on an output that held
\* the step's first candidate command and no failure keyword; k = -1 once an
\* output did not, or when no plan has been activated
NoStreak == [n |-> 0, k |-> 0 - 1]
StreakAfter(c, view, text) ==
    IF ~view.isActive THEN c
    ELSE IF c.k >= 0 /\ Len(view.steps) > 0 /\ SpecSuccess(view, text)
    THEN [c EXCEPT !.k = @ + 1]
    ELSE NoStreak

\* updateMissionState as a function of the mission, the heaps and the text
UpdatedMission(am, sh, lh, text) ==
    IF ~am.isActive THEN am
    ELSE IF Len(am.steps) = 0 THEN IdleMission
    ELSE LET after == Evaluate(am, LikelySuccess(ExpectedCmd(am, sh, lh), text))
         IN IF MissionFinished(after.currentStep, Len(am.steps)) THEN IdleMission ELSE after

UpdateMissionState(text) ==
    /\ UpdatedMission(activeMission, stepHeap, listHeap, text).failures <= MaxFailures
    /\ activeMission' = UpdatedMission(activeMission, stepHeap, listHeap, text)
    /\ mOp' = "updateMissionState"
    /\ mPrev' = MissionView
    /\ mArg' = [text |-> text, intent |-> <<>>, info |-> <<>>]
    /\ coop' = StreakAfter(coop, MissionView, text)
    /\ UNCHANGED <<stepHeap, listHeap, mutations>>
    /\ UNCHANGED <<ledgerVars, raceVars, callVars, turnVars>>

ResetMission ==
    /\ activeMission' = IdleMission
    /\ mOp' = "resetMission"
    /\ mPrev' = MissionView
    /\ mArg' = [text |-> <<>>, intent |-> <<>>, info |-> <<>>]
    /\ coop' = NoStreak
    /\ UNCHANGED <<stepHeap, listHeap, mutations>>
    /\ UNCHANGED <<ledgerVars, raceVars, callVars, turnVars>>

\* info.find(ex => Array.isArray(ex.plan) && ex.plan.length > 0)
PlanBearing(info) == { k \in 1..Len(info) : Len(Examples[info[k]].plan) > 0 }

PrimaryExample(info) == info[CHOOSE k \in PlanBearing(info) : \A j \in PlanBearing(info) : k <= j]

ShouldActivateIgnoringActive(am, intent, info) ==
    /\ intent # <<>>
    /\ intent[1].type \in {"BUILD", "CRAFT"}
    /\ Len(info) > 0
    /\ PlanBearing(info) # {}

\* the condition of the activation branch of improvePrompt
ShouldActivate(am, intent, info) ==
    /\ ~am.isActive
    /\ intent # <<>>
    /\ intent[1].type \in {"BUILD", "CRAFT"}
    /\ Len(info) > 0
    /\ PlanBearing(info) # {}

\* primaryExample.name || primaryExample.slug || intent.type
PlanName(ex, intent) ==
    IF TruthyName(ex.name) THEN ex.name
    ELSE IF TruthyName(ex.slug) THEN ex.slug
    ELSE intent[1].type

\* {...step, action_cmd: [...], verify_cmd: [...]} for plan step i: the new
\* step object keeps every other field of the source, references included
CopiedStep(src, i) ==
    [src EXCEPT !.action_cmd = Ref(0, i, FAct), !.verify_cmd = Ref(0, i, FVer)]

\* step.action_cmd ? [...step.action_cmd] : []
CopiedList(lh, r) == IF r # NoRef THEN lh[r] ELSE <<>>

\* the mission object the activation branch assigns
ActivatedMission(ex, intent) ==
    [isActive |-> TRUE,
     planName |-> PlanName(ex, intent),
     steps |-> [i \in 1..Len(ex.plan) |-> Ref(0, i, 0)],
     currentStep |-> 0,
     failures |-> 0]

\* primaryExample.plan.map(step => ({...})): the new step objects
ActivatedSteps(sh, ex) ==
    [r \in StepRefs |->
        IF \E i \in 1..Len(ex.plan) : r = Ref(0, i, 0)
        THEN LET k == CHOOSE j \in 1..Len(ex.plan) : r = Ref(0, j, 0)
             IN CopiedStep(sh[ex.plan[k]], k)
        ELSE sh[r]]

\* and their new action_cmd and verify_cmd arrays
ActivatedLists(sh, lh, ex) ==
    [r \in ListRefs |->
        IF \E i \in 1..Len(ex.plan), f \in {FAct, FVer} : r = Ref(0, i, f)
        THEN LET k == CHOOSE j \in 1..Len(ex.plan) : \E g \in {FAct, FVer} : r = Ref(0, j, g)
                 h == CHOOSE g \in {FAct, FVer} : r = Ref(0, k, g)
             IN CopiedList(lh, StepField(sh[ex.plan[k]], h))
        ELSE lh[r]]

ImprovePrompt(intent, info) ==
    /\ IF ShouldActivate(activeMission, intent, info)
       THEN LET ex == Examples[PrimaryExample(info)]
            IN /\ activeMission' = ActivatedMission(ex, intent)
               /\ stepHeap' = ActivatedSteps(stepHeap, ex)
               /\ listHeap' = ActivatedLists(stepHeap, listHeap, ex)
               /\ coop' = [n |-> Len(ex.plan), k |-> 0]
       ELSE UNCHANGED <<activeMission, stepHeap, listHeap, coop>>
    /\ mOp' = "improvePrompt"
    /\ mPrev' = MissionView
    /\ mArg' = [text |-> <<>>, intent |-> intent, info |-> info]
    /\ UNCHANGED mutations
    /\ UNCHANGED <<ledgerVars, raceVars, callVars, turnVars>>

(***************************************************************************)
(* A holder of activeMission.steps, or of the example objects, mutating    *)
(* them: a step's goal is assigned, or an item is pushed onto one of its   *)
(* lists.                                                                  *)
(***************************************************************************)
Marker == <<"x">>

MissionStepRefs == { activeMission.steps[i] : i \in 1..Len(activeMission.steps) }

AssignGoal(r) ==
    /\ stepHeap' = [stepHeap EXCEPT ![r].goal = "changed"]
    /\ UNCHANGED listHeap

PushItem(r, f) ==
    /\ StepField(stepHeap[r], f) # NoRef
    /\ listHeap' = [listHeap EXCEPT ![StepField(stepHeap[r], f)] = Append(@, Marker)]
    /\ UNCHANGED stepHeap

MutateMissionSteps ==
    /\ mutations < MaxMutations
    /\ \E r \in MissionStepRefs : AssignGoal(r) \/ \E f \in ListFields : PushItem(r, f)
    /\ mutations' = mutations + 1
    /\ mOp' = "mutateMission"
    /\ mPrev' = MissionView
    /\ mArg' = [text |-> <<>>, intent |-> <<>>, info |-> <<>>]
    /\ UNCHANGED <<activeMission, coop>>
    /\ UNCHANGED <<ledgerVars, raceVars, callVars, turnVars>>

MutateExample ==
    /\ mutations < MaxMutations
    /\ \E e \in ExampleIds : \E i \in 1..Len(Examples[e].plan) :
          AssignGoal(Examples[e].plan[i]) \/ \E f \in ListFields : PushItem(Examples[e].plan[i], f)
    /\ mutations' = mutations + 1
    /\ mOp' = "mutateExample"
    /\ mPrev' = MissionView
    /\ mArg' = [text |-> <<>>, intent |-> <<>>, info |-> <<>>]
    /\ UNCHANGED <<activeMission, coop>>
    /\ UNCHANGED <<ledgerVars, raceVars, callVars, turnVars>>

(***************************************************************************)
(* SharedMemory: the task ledger file                                      *)
(***************************************************************************)
\* (...).slice(0, 120)
SummaryLimit == 120

LongSummary == [i \in 1..(SummaryLimit + 1) |-> "w"]
TextS == <<"s">>

TypeText(t) ==
    CASE t = "BUILD" -> <<"B","U","I","L","D">>
      [] t = "CRAFT" -> <<"C","R","A","F","T">>
      [] t = "COOK" -> <<"C","O","O","K">>
      [] OTHER -> <<"G","E","N","E","R","A","L">>

Statuses == {"planning", "in_progress", "done", "failed"}

\* options.agentName || 'unknown_agent'
AgentName(self) == IF TruthyName(self) THEN self ELSE "unknown_agent"

\* this.agent?.name of the ImplicitEnhancer that owns a SharedMemory
Instances == {"alice", Undef}

\* _load: JSON.parse of the file, then state.tasks || []
Load(f) == f.tasks

IsActiveStatus(st) == st = "planning" \/ st = "in_progress"

\* summary || intent?.input || intent?.type || ''
RawSummary(summary, intent) ==
    IF TruthyText(summary) THEN summary
    ELSE IF intent # <<>> /\ TruthyText(intent[1].input) THEN intent[1].input
    ELSE IF intent # <<>> /\ TruthyName(intent[1].type) THEN TypeText(intent[1].type)
    ELSE <<>>

\* String.prototype.slice(0, n)
Slice(s, n) == SubSeq(s, 1, Min(Len(s), n))

TaskSummary(summary, intent) == Slice(RawSummary(summary, intent), SummaryLimit)

\* the predicate of the find() in claimTask
SameActiveGoal(t, agent, taskSummary) ==
    t.agent = agent /\ t.summary = taskSummary /\ IsActiveStatus(t.status)

\* Array.prototype.find over the indices S that satisfy the predicate: the
\* first of them, 0 if there is none
FirstIndex(S) == IF S = {} THEN 0 ELSE CHOOSE i \in S : \A j \in S : i <= j

\* `task_${Date.now()}_${Math.floor(Math.random() * 1000)}`
TaskId(ms, rnd) == <<ms, rnd>>

NewTask(self, a, ms, rnd) ==
    [id |-> TaskId(ms, rnd),
     agent |-> IF TruthyName(a.agent) THEN a.agent ELSE AgentName(self),
     intent |-> a.intent,
     summary |-> TaskSummary(a.summary, a.intent),
     status |-> IF a.status = Undef THEN "planning" ELSE a.status,
     createdAt |-> ms,
     updatedAt |-> ms,
     lastResponse |-> Undef,
     reason |-> Undef,
     result |-> Undef]

PushedAlone(tasks, task) == <<task>>

\* state.tasks.push(task)
Pushed(tasks, task) == Append(tasks, task)

\* the arguments of claimTask: agent, intent, summary and status
ClaimArgs ==
    { [agent |-> "alice", intent |-> <<[type |-> "BUILD", input |-> TextS]>>,
       summary |-> TextS, status |-> "planning"],
      [agent |-> Undef, intent |-> <<[type |-> "BUILD", input |-> TextS]>>,
       summary |-> TextS, status |-> "planning"],
      [agent |-> "alice", intent |-> <<[type |-> "COOK", input |-> LongSummary]>>,
       summary |-> UndefinedText, status |-> Undef],
      [agent |-> Undef, intent |-> <<>>,
       summary |-> <<>>, status |-> "done"] }

\* sendRequest claims with agent: this.agent?.name, on the SharedMemory it
\* built with agentName: this.agent?.name
ClaimsOf(self) == { a \in ClaimArgs : a.agent = self }

NoClaim == [agent |-> Undef, intent |-> <<>>, summary |-> UndefinedText, status |-> Undef]
NoExtra == [lastResponse |-> Undef, reason |-> Undef, result |-> Undef]
NoId == TaskId(0 - 1, 0)

LedgerArg(self, claim, id, status, extra, excludeAgent) ==
    [self |-> self, claim |-> claim, id |-> id, status |-> status,
     extra |-> extra, excludeAgent |-> excludeAgent]

ClaimTask(self, a, rnd) ==
    LET tasks == Load(file)
        taskSummary == TaskSummary(a.summary, a.intent)
        existing == FirstIndex({ i \in 1..Len(tasks) : SameActiveGoal(tasks[i], a.agent, taskSummary) })
    IN /\ IF existing # 0
          THEN /\ lRet' = <<tasks[existing]>>
               /\ UNCHANGED file
          ELSE /\ Len(tasks) < MaxTasks
               /\ file' = [tasks |-> Pushed(tasks, NewTask(self, a, now, rnd))]
               /\ lRet' = <<NewTask(self, a, now, rnd)>>
       /\ lOp' = "claimTask"
       /\ lArg' = LedgerArg(self, a, NoId, Undef, NoExtra, Undef)
       /\ UNCHANGED now
       /\ UNCHANGED <<missionVars, raceVars, callVars, turnVars>>

ExtraArgs ==
    { NoExtra,
      [lastResponse |-> "res", reason |-> Undef, result |-> Undef],
      [lastResponse |-> Undef, reason |-> "why", result |-> Undef] }

\* updateStatus(id, status) with extra left to its default {}
DefaultExtra == {NoExtra}

ResultArgs == {"out"}

\* the ids a caller may hold: those of the tasks in the file, and one that no task has
IdArgs == { Load(file)[i].id : i \in 1..Len(Load(file)) } \cup {NoId}

\* Object.assign(task, extra): every key that extra carries is written
Assigned(task, extra) ==
    [task EXCEPT !.lastResponse = IF extra.lastResponse # Undef THEN extra.lastResponse ELSE @,
                 !.reason = IF extra.reason # Undef THEN extra.reason ELSE @,
                 !.result = IF extra.result # Undef THEN extra.result ELSE @]

UpdatedTaskStale(task, status, ms, extra) ==
    Assigned([task EXCEPT !.status = status], extra)

\* task.status = status; task.updatedAt = new Date().toISOString(); Object.assign(task, extra)
UpdatedTask(task, status, ms, extra) ==
    Assigned([task EXCEPT !.status = status, !.updatedAt = ms], extra)

UpdateStatusBody(id, status, extra) ==
    LET tasks == Load(file)
        found == FirstIndex({ i \in 1..Len(tasks) : tasks[i].id = id })
    IN IF found = 0
       THEN /\ lRet' = <<>>
            /\ UNCHANGED file
       ELSE /\ file' = [tasks |-> [tasks EXCEPT ![found] = UpdatedTask(@, status, now, extra)]]
            /\ lRet' = <<UpdatedTask(tasks[found], status, now, extra)>>

UpdateStatus(id, status, extra) ==
    /\ UpdateStatusBody(id, status, extra)
    /\ lOp' = "updateStatus"
    /\ lArg' = LedgerArg(Undef, NoClaim, id, status, extra, Undef)
    /\ UNCHANGED now
    /\ UNCHANGED <<missionVars, raceVars, callVars, turnVars>>

\* return this.updateStatus(id, 'done', { result })
CompleteTask(id, result) ==
    /\ UpdateStatusBody(id, "done", [NoExtra EXCEPT !.result = result])
    /\ lOp' = "completeTask"
    /\ lArg' = LedgerArg(Undef, NoClaim, id, "done", [NoExtra EXCEPT !.result = result], Undef)
    /\ UNCHANGED now
    /\ UNCHANGED <<missionVars, raceVars, callVars, turnVars>>

ExcludeArgs == {"alice", "unknown_agent", Undef}

ListedAll(tasks, excludeAgent) ==
    SelectSeq(tasks, LAMBDA t : IsActiveStatus(t.status))

\* the filter of listActive
Listed(tasks, excludeAgent) ==
    SelectSeq(tasks, LAMBDA t :
        LET active == t.status = "planning" \/ t.status = "in_progress"
            notExcluded == ~TruthyName(excludeAgent) \/ t.agent # excludeAgent
        IN active /\ notExcluded)

ListActive(excludeAgent) ==
    /\ lRet' = Listed(Load(file), excludeAgent)
    /\ lOp' = "listActive"
    /\ lArg' = LedgerArg(Undef, NoClaim, NoId, Undef, NoExtra, excludeAgent)
    /\ UNCHANGED <<file, now>>
    /\ UNCHANGED <<missionVars, raceVars, callVars, turnVars>>

\* the wall clock (Date.now(), in milliseconds) advances between calls
Tick ==
    /\ now < MaxClock
    /\ now' = now + 1
    /\ lOp' = "tick"
    /\ lArg' = LedgerArg(Undef, NoClaim, NoId, Undef, NoExtra, Undef)
    /\ UNCHANGED <<file, lRet>>
    /\ UNCHANGED <<missionVars, raceVars, callVars, turnVars>>

(***************************************************************************)
(* The ledger file when it does not hold an object with a task list.       *)
(* raw says what readFileSync and JSON.parse meet: no file, text that is   *)
(* not JSON, or the JSON values null, 5, [], {} and {"tasks": 5}.          *)
(***************************************************************************)
CorruptKinds ==
    {"missing", "not json", "null", "number", "array", "no tasks", "tasks number"}

CorruptFiles == { [raw |-> k] : k \in CorruptKinds }

WellFormed(f) == "tasks" \in DOMAIN f

\* what a call returns when a TypeError leaves it: no task, marked
LedgerRaised ==
    <<[id |-> NoId, agent |-> Undef, intent |-> <<>>, summary |-> <<>>,
       status |-> "TypeError", createdAt |-> 0, updatedAt |-> 0,
       lastResponse |-> Undef, reason |-> Undef, result |-> Undef]>>

\* _load: the catch covers readFileSync and JSON.parse, and nothing else
Loaded(f) ==
    IF WellFormed(f) THEN f
    ELSE IF f.raw \in {"missing", "not json"} THEN [tasks |-> <<>>]
    ELSE f

\* (state.tasks || []).find / .filter throws: state is null, or state.tasks
\* is truthy and not an array
ReadThrows(state) == ~WellFormed(state) /\ state.raw \in {"null", "tasks number"}

\* state.tasks || []
TasksRead(state) == IF WellFormed(state) THEN state.tasks ELSE <<>>

\* state.tasks = state.tasks || [] throws: state is a primitive (the module
\* is strict code)
PushThrows(state) == ~WellFormed(state) /\ state.raw = "number"

\* state.tasks.push(task); _save(state): what JSON.stringify writes, which
\* for an array leaves out the tasks property
SavedWith(state, task) ==
    IF WellFormed(state) THEN [tasks |-> Append(state.tasks, task)]
    ELSE IF state.raw = "array" THEN state
    ELSE [tasks |-> <<task>>]

CorruptListActive(excludeAgent) ==
    /\ ~WellFormed(file)
    /\ lRet' = IF ReadThrows(Loaded(file)) THEN LedgerRaised
               ELSE Listed(TasksRead(Loaded(file)), excludeAgent)
    /\ lOp' = "listActive"
    /\ lArg' = LedgerArg(Undef, NoClaim, NoId, Undef, NoExtra, excludeAgent)
    /\ UNCHANGED <<file, now>>
    /\ UNCHANGED <<missionVars, raceVars, callVars, turnVars>>

CorruptUpdateStatus(id, status, extra) ==
    /\ ~WellFormed(file)
    /\ lRet' = IF ReadThrows(Loaded(file)) THEN LedgerRaised ELSE <<>>
    /\ lOp' = "updateStatus"
    /\ lArg' = LedgerArg(Undef, NoClaim, id, status, extra, Undef)
    /\ UNCHANGED <<file, now>>
    /\ UNCHANGED <<missionVars, raceVars, callVars, turnVars>>

CorruptClaimTask(self, a, rnd) ==
    /\ ~WellFormed(file)
    /\ LET state == Loaded(file)
           task == NewTask(self, a, now, rnd)
       IN IF ReadThrows(state) \/ PushThrows(state)
          THEN /\ lRet' = LedgerRaised
               /\ UNCHANGED file
          ELSE /\ lRet' = <<task>>
               /\ file' = SavedWith(state, task)
    /\ lOp' = "claimTask"
    /\ lArg' = LedgerArg(self, a, NoId, Undef, NoExtra, Undef)
    /\ UNCHANGED now
    /\ UNCHANGED <<missionVars, raceVars, callVars, turnVars>>

(***************************************************************************)
(* Two agent processes on one ledger file.  A call of a process is a       *)
(* readFileSync (_load), a computation on the parsed record, and a         *)
(* writeFileSync of the whole record (_save); between the two, the other   *)
(* process runs.                                                           *)
(***************************************************************************)
Procs == {"alice", "bob"}
Other(p) == IF p = "alice" THEN "bob" ELSE "alice"

IdleProc ==
    [pc |-> "idle", state |-> [tasks |-> <<>>], status |-> Undef, fresh |-> TRUE,
     claimed |-> <<>>, wrote |-> Undef, ret |-> <<>>]

InitRace ==
    /\ proc = [p \in Procs |-> IdleProc]
    /\ raced = FALSE

\* the claim of sendRequest: agent this.agent.name, summary intent.input
ClaimOf(p) ==
    [agent |-> p, intent |-> <<[type |-> "BUILD", input |-> TextS]>>,
     summary |-> TextS, status |-> "planning"]

\* Math.floor(Math.random() * 1000) of the one claim of each process: the
\* two draws differ
Draw(p) == IF p = "alice" THEN 0 ELSE 1

SnapshotReset(f) == [tasks |-> <<>>]

\* const state = this._load()
Snapshot(f) == f

\* claimTask up to and with _load: the first turn of the process
BeginClaim(p) ==
    /\ proc[p].pc = "idle"
    /\ proc[p].claimed = <<>>
    /\ proc' = [proc EXCEPT ![p].pc = "claimTask", ![p].state = Snapshot(file),
                            ![p].fresh = TRUE]
    /\ UNCHANGED <<file, raced>>

\* updateStatus(this.lastClaimedTaskId, status) up to and with _load
BeginUpdate(p, status) ==
    /\ proc[p].pc = "idle"
    /\ proc[p].claimed # <<>>
    /\ proc' = [proc EXCEPT ![p].pc = "updateStatus", ![p].state = Snapshot(file),
                            ![p].status = status, ![p].fresh = TRUE]
    /\ UNCHANGED <<file, raced>>

\* this._save(state) by p: the file is the record p holds
Save(p, state) ==
    /\ file' = state
    /\ raced' = (raced \/ ~proc[p].fresh)

\* the rest of claimTask: find, push, _save, return
EndClaim(p) ==
    /\ proc[p].pc = "claimTask"
    /\ LET a == ClaimOf(p)
           tasks == Load(proc[p].state)
           taskSummary == TaskSummary(a.summary, a.intent)
           existing == FirstIndex({ i \in 1..Len(tasks) : SameActiveGoal(tasks[i], a.agent, taskSummary) })
           task == NewTask(p, a, now, Draw(p))
       IN IF existing # 0
          THEN /\ proc' = [proc EXCEPT ![p].pc = "idle", ![p].claimed = <<tasks[existing].id>>,
                                       ![p].ret = <<tasks[existing]>>]
               /\ UNCHANGED <<file, raced>>
          ELSE /\ Save(p, [tasks |-> Pushed(tasks, task)])
               /\ proc' = [proc EXCEPT ![p].pc = "idle", ![p].claimed = <<task.id>>,
                                       ![p].wrote = task.status, ![p].ret = <<task>>,
                                       ![Other(p)].fresh = FALSE]

\* the rest of updateStatus: find, assign, _save, return
EndUpdate(p) ==
    /\ proc[p].pc = "updateStatus"
    /\ LET tasks == Load(proc[p].state)
           found == FirstIndex({ i \in 1..Len(tasks) : tasks[i].id = proc[p].claimed[1] })
       IN IF found = 0
          THEN /\ proc' = [proc EXCEPT ![p].pc = "idle", ![p].ret = <<>>]
               /\ UNCHANGED <<file, raced>>
          ELSE /\ Save(p, [tasks |-> [tasks EXCEPT ![found] = UpdatedTask(@, proc[p].status, now, NoExtra)]])
               /\ proc' = [proc EXCEPT ![p].pc = "idle", ![p].wrote = proc[p].status,
                                       ![p].ret = <<UpdatedTask(tasks[found], proc[p].status, now, NoExtra)>>,
                                       ![Other(p)].fresh = FALSE]

(***************************************************************************)
(* Regular expressions and number formats of the override chain.           *)
(***************************************************************************)
Quotes == {"\"", "'"}
\* \s, as far as the texts of the model have it
Whitespace == {" ", "\t", "\n"}
DigitChars == <<"0", "1", "2", "3", "4", "5", "6", "7", "8", "9">>
Digits == { DigitChars[i] : i \in 1..Len(DigitChars) }
\* \w
WordChars ==
    { UpperLetters[i] : i \in 1..Len(UpperLetters) } \cup
    { LowerLetters[i] : i \in 1..Len(LowerLetters) } \cup Digits \cup {"_"}

\* the last index of the longest run of characters of S that starts at j
\* (j - 1 when s[j] is not in S)
RunEnd(s, j, S) ==
    CHOOSE e \in (j - 1)..Len(s) :
        /\ \A k \in j..e : s[k] \in S
        /\ e = Len(s) \/ s[e + 1] \notin S

Chars(s) == { s[i] : i \in 1..Len(s) }

\* does s carry word at index i, letters compared without case
HasAt(s, i, word) ==
    /\ i >= 1
    /\ i + Len(word) - 1 <= Len(s)
    /\ ToLower(SubSeq(s, i, i + Len(word) - 1)) = ToLower(word)

\* \(\s*["']([^"']+)["'] at index j: the index of the opening quote, 0 if
\* the pattern does not match there
OpenQuote(s, j) ==
    IF j <= Len(s) /\ s[j] = "("
    THEN LET o == RunEnd(s, j + 1, Whitespace) + 1
         IN IF o <= Len(s) /\ s[o] \in Quotes
            THEN LET c == RunEnd(s, o + 1, Chars(s) \ Quotes) + 1
                 IN IF c > o + 1 /\ c <= Len(s) THEN o ELSE 0
            ELSE 0
    ELSE 0

\* does /!name\(\s*["']([^"']+)["']/i match at index i
CallAt(s, i, name) ==
    /\ s[i] = "!"
    /\ HasAt(s, i + 1, name)
    /\ OpenQuote(s, i + 1 + Len(name)) # 0

\* commandString.match(/!(?:n1|n2)\(\s*["']([^"']+)["']/i): <<>> for no
\* match, else <<group 1>> of the leftmost match
CallArg(s, names) ==
    LET starts == { x \in { i \in 1..Len(s) : s[i] = "!" } \X names : CallAt(s, x[1], x[2]) }
    IN IF starts = {} THEN <<>>
       ELSE LET m == CHOOSE x \in starts : \A y \in starts : x[1] <= y[1]
                o == OpenQuote(s, m[1] + 1 + Len(m[2]))
            IN <<SubSeq(s, o + 1, RunEnd(s, o + 1, Chars(s) \ Quotes))>>

\* commandString.match(/!(\w+)/): <<>> for no match, else <<group 1>>
CmdName(s) ==
    LET starts == { i \in 1..(Len(s) - 1) : s[i] = "!" /\ s[i + 1] \in WordChars }
    IN IF starts = {} THEN <<>>
       ELSE LET i == CHOOSE x \in starts : \A y \in starts : x <= y
            IN <<SubSeq(s, i + 1, RunEnd(s, i + 1, WordChars))>>

DigitValue(c) == (CHOOSE i \in 1..Len(DigitChars) : DigitChars[i] = c) - 1

\* parseInt of a run of digits
RECURSIVE ParseInt(_)
ParseInt(ds) ==
    IF ds = <<>> THEN 0
    ELSE 10 * ParseInt(SubSeq(ds, 1, Len(ds) - 1)) + DigitValue(ds[Len(ds)])

\* `${n}` for a number n >= 0
RECURSIVE NumberText(_)
NumberText(n) ==
    IF n < 10 THEN <<DigitChars[n + 1]>>
    ELSE NumberText(n \div 10) \o <<DigitChars[(n % 10) + 1]>>

(***************************************************************************)
(* Item and block names, and the command names of the override chain.      *)
(***************************************************************************)
Furnace == <<"f", "u", "r", "n", "a", "c", "e">>
Cobblestone == <<"c", "o", "b", "b", "l", "e", "s", "t", "o", "n", "e">>
Stone == <<"s", "t", "o", "n", "e">>
IronIngot == <<"i", "r", "o", "n", "_", "i", "n", "g", "o", "t">>
Stick == <<"s", "t", "i", "c", "k">>
OakPlanks == <<"o", "a", "k", "_", "p", "l", "a", "n", "k", "s">>
AcaciaLog == <<"a", "c", "a", "c", "i", "a", "_", "l", "o", "g">>
IronAxe == <<"i", "r", "o", "n", "_", "a", "x", "e">>
OakLog == <<"o", "a", "k", "_", "l", "o", "g">>
IronOre == <<"i", "r", "o", "n", "_", "o", "r", "e">>
WoodenPickaxe ==
    <<"w", "o", "o", "d", "e", "n", "_", "p", "i", "c", "k", "a", "x", "e">>
StonePickaxe ==
    <<"s", "t", "o", "n", "e", "_", "p", "i", "c", "k", "a", "x", "e">>
IronPickaxe == <<"i", "r", "o", "n", "_", "p", "i", "c", "k", "a", "x", "e">>
smeltItem == <<"s", "m", "e", "l", "t", "I", "t", "e", "m">>
attack == <<"a", "t", "t", "a", "c", "k">>
collectBlocks ==
    <<"c", "o", "l", "l", "e", "c", "t", "B", "l", "o", "c", "k", "s">>
searchForBlock ==
    <<"s", "e", "a", "r", "c", "h", "F", "o", "r", "B", "l", "o", "c", "k">>
craftRecipe == <<"c", "r", "a", "f", "t", "R", "e", "c", "i", "p", "e">>
placeHere == <<"p", "l", "a", "c", "e", "H", "e", "r", "e">>

(***************************************************************************)
(* The world as analyzeTaskRequirements queries it (this.agent.bot).       *)
(***************************************************************************)
MaxCobble == 9

\* registry.items: the item ids and their names
ItemIds == 1..7
ItemName(id) ==
    CASE id = 1 -> WoodenPickaxe
      [] id = 2 -> StonePickaxe
      [] id = 3 -> IronPickaxe
      [] id = 4 -> Stick
      [] id = 5 -> Cobblestone
      [] id = 6 -> OakPlanks
      [] id = 7 -> IronIngot

\* registry.itemsByName[name].id, 0 for a name the registry does not have
ItemIdOf(name) ==
    IF \E id \in ItemIds : ItemName(id) = name
    THEN CHOOSE id \in ItemIds : ItemName(id) = name
    ELSE 0

\* registry.blocksByName: the blocks of the registry
BlockNames == {Stone, Cobblestone, IronOre, OakLog, AcaciaLog, Furnace}

\* Object.keys(registry.blocksByName[name].harvestTools), in key order; <<>>
\* for a block that any hand harvests
HarvestTools(name) ==
    CASE name = Stone -> <<1, 2, 3>>
      [] name = Cobblestone -> <<1, 2, 3>>
      [] name = Furnace -> <<1, 2, 3>>
      [] name = IronOre -> <<2, 3>>
      [] OTHER -> <<>>

\* the recipes of an item: each a delta list, ingredients with negative counts
Recipes(id) ==
    CASE id = 1 -> << <<[id |-> 6, count |-> 0 - 3], [id |-> 4, count |-> 0 - 2],
                        [id |-> 1, count |-> 1]>> >>
      [] id = 2 -> << <<[id |-> 2, count |-> 1]>>,
                      <<[id |-> 5, count |-> 0 - 3], [id |-> 4, count |-> 0 - 2],
                        [id |-> 2, count |-> 1]>> >>
      [] id = 3 -> << <<[id |-> 7, count |-> 0 - 3], [id |-> 4, count |-> 0 - 2],
                        [id |-> 3, count |-> 1]>> >>
      [] OTHER -> <<>>

Stack(name, count) == IF count > 0 THEN <<[name |-> name, count |-> count]>> ELSE <<>>

\* what the bot carries besides furnaces and cobblestone
Kits ==
    { <<>>,
      Stack(IronIngot, 3) \o Stack(Stick, 2),
      Stack(IronIngot, 2) \o Stack(Stick, 2),
      Stack(Stick, 1),
      Stack(StonePickaxe, 1),
      Stack(OakPlanks, 3) \o Stack(Stick, 2) }

\* bot.inventory.items(): cobblestone beyond 4 lies in two stacks
Inventories ==
    { Stack(Furnace, f) \o Stack(Cobblestone, Min(c, 4)) \o kit
          \o Stack(Cobblestone, c - Min(c, 4)) :
      f \in {0, 1}, c \in 0..MaxCobble, kit \in Kits }

FindBlockResults == {"found", "none", "throws", "absent"}

\* a bot whose every query answers, with furnaces nearby or not
SoundWorlds ==
    { [inventory |-> TRUE, itemsThrow |-> FALSE, items |-> inv, findBlock |-> fb,
       registry |-> TRUE, recipes |-> "known"] :
      inv \in Inventories, fb \in {"found", "none"} }

\* the same with one part missing or one query failing
FaultyWorlds ==
    LET base == { w \in SoundWorlds : w.findBlock = "none" }
    IN { [w EXCEPT !.findBlock = fb] : w \in base, fb \in {"throws", "absent"} }
       \cup { [w EXCEPT !.inventory = FALSE] : w \in base }
       \cup { [w EXCEPT !.itemsThrow = TRUE] : w \in base }
       \cup { [w EXCEPT !.registry = FALSE] : w \in base }
       \cup { [w EXCEPT !.recipes = r] : w \in base, r \in {"none", "throws"} }

Worlds == SoundWorlds \cup FaultyWorlds

(***************************************************************************)
(* ImplicitEnhancer: analyzeTaskRequirements and applyTaskOverrides        *)
(***************************************************************************)
\* an Override; goal and advice are named by the rule that wrote them
Override(rule, command) == <<[goal |-> rule, command |-> command, advice |-> rule]>>

\* an exception leaving the method
Throws == <<[goal |-> "<throws>", command |-> <<>>, advice |-> "<throws>"]>>

\* `!name("target", count)` and `!name("target")`
Command2(name, target, count) ==
    <<"!">> \o name \o <<"(", "\"">> \o target \o <<"\"", ",", " ">> \o NumberText(count) \o <<")">>
Command1(name, target) ==
    <<"!">> \o name \o <<"(", "\"">> \o target \o <<"\"", ")">>

RECURSIVE SumCounts(_)
SumCounts(items) ==
    IF items = <<>> THEN 0 ELSE items[1].count + SumCounts(Tail(items))

\* invItems.filter(i => i.name === name).reduce((s, i) => s + i.count, 0)
CountInInv(invItems, name) == SumCounts(SelectSeq(invItems, LAMBDA i : i.name = name))

\* nearbyFurnace after the try/catch around bot.findBlock?.(...)
NearbyFurnace(w) == w.findBlock = "found"

SmeltThreshold == 8

SmeltGatingCraftFirst(w, invItems) ==
    IF CountInInv(invItems, Furnace) > 0
    THEN Override("smelt: place furnace", Command1(placeHere, Furnace))
    ELSE Override("smelt: craft furnace", Command2(craftRecipe, Furnace, 1))

\* the body of if (!nearbyFurnace)
SmeltGating(w, invItems) ==
    IF CountInInv(invItems, Furnace) > 0
    THEN Override("smelt: place furnace", Command1(placeHere, Furnace))
    ELSE LET cobble == CountInInv(invItems, Cobblestone)
         IN IF cobble < SmeltThreshold
            THEN Override("smelt: collect cobblestone",
                          Command2(collectBlocks, Cobblestone, SmeltThreshold - cobble))
            ELSE Override("smelt: craft furnace", Command2(craftRecipe, Furnace, 1))

BlockHints == {<<"o", "r", "e">>, <<"l", "o", "g">>, <<"p", "l", "a", "n", "k">>, Stone, Cobblestone}

\* likelyBlock
LikelyBlock(w, targetName) ==
    \/ \E h \in BlockHints : Includes(targetName, h)
    \/ w.registry /\ targetName \in BlockNames

\* /collectBlocks\(\s*["']cobblestone["']\s*,\s*(\d+)/i at index i: the
\* index of the first digit, 0 if the pattern does not match there
CountAt(s, i) ==
    IF HasAt(s, i, collectBlocks) /\ i + Len(collectBlocks) <= Len(s)
       /\ s[i + Len(collectBlocks)] = "("
    THEN LET o == RunEnd(s, i + Len(collectBlocks) + 1, Whitespace) + 1
             c == o + Len(Cobblestone) + 1
         IN IF c <= Len(s) /\ s[o] \in Quotes /\ HasAt(s, o + 1, Cobblestone) /\ s[c] \in Quotes
            THEN LET k == RunEnd(s, c + 1, Whitespace) + 1
                 IN IF k <= Len(s) /\ s[k] = ","
                    THEN LET d == RunEnd(s, k + 1, Whitespace) + 1
                         IN IF d <= Len(s) /\ s[d] \in Digits THEN d ELSE 0
                    ELSE 0
            ELSE 0
    ELSE 0

\* requested: parseInt of the digits of the leftmost match, 1 without a match
RequestedCount(s) ==
    LET starts == { i \in { j \in 1..Len(s) : LowerChar(s[j]) = "c" } : CountAt(s, i) # 0 }
    IN IF starts = {} THEN 1
       ELSE LET d == CountAt(s, CHOOSE x \in starts : \A y \in starts : x <= y)
            IN ParseInt(SubSeq(s, d, RunEnd(s, d, Digits)))

GenericWood ==
    { <<"l", "o", "g">>, <<"l", "o", "g", "s">>, <<"w", "o", "o", "d">>,
      <<"p", "l", "a", "n", "k">>, <<"p", "l", "a", "n", "k", "s">>,
      <<"w", "o", "o", "d", "e", "n", "_", "p", "l", "a", "n", "k", "s">> }

\* isWoodTask
IsWoodTask(target) ==
    \/ Includes(target, <<"l", "o", "g">>)
    \/ Includes(target, <<"p", "l", "a", "n", "k">>)
    \/ Includes(target, <<"w", "o", "o", "d">>)

HasIronAxeMatsStrict(invItems) ==
    CountInInv(invItems, IronIngot) > 3 /\ CountInInv(invItems, Stick) > 2

\* hasIronAxeMats
HasIronAxeMats(invItems) ==
    CountInInv(invItems, IronIngot) >= 3 /\ CountInInv(invItems, Stick) >= 2

\* (recipe.delta || []).filter(d => d.count < 0).map(...).filter(Boolean)
Requirements(recipe) ==
    LET taken == SelectSeq(recipe, LAMBDA d : d.count < 0 /\ d.id \in ItemIds)
    IN [k \in 1..Len(taken) |-> [name |-> ItemName(taken[k].id), count |-> 0 - taken[k].count]]

\* bot.recipesFor(tool.id) || []
RecipesFor(w, id) == IF w.recipes = "known" THEN Recipes(id) ELSE <<>>

\* the two returns inside the loop over the recipes
ToolOverride(invItems, toolName, requirements) ==
    LET missing == SelectSeq(requirements, LAMBDA r : CountInInv(invItems, r.name) < r.count)
    IN IF Len(missing) = 0
       THEN Override("tool: craft", Command2(craftRecipe, toolName, 1))
       ELSE LET need == missing[1]
                shortfall == need.count - CountInInv(invItems, need.name)
                needCount == IF shortfall > 1 THEN shortfall ELSE 1
            IN Override("tool: collect ingredient", Command2(collectBlocks, need.name, needCount))

\* the loops over toolNames and recipes, from tool k on: the first tool of
\* the registry whose recipes have one with requirements decides
RECURSIVE ToolGatingFrom(_, _, _, _)
ToolGatingFrom(w, invItems, toolNames, k) ==
    IF k > Len(toolNames) THEN <<>>
    ELSE IF ItemIdOf(toolNames[k]) = 0 THEN ToolGatingFrom(w, invItems, toolNames, k + 1)
    ELSE IF w.recipes = "throws" THEN Throws
    ELSE LET recipes == RecipesFor(w, ItemIdOf(toolNames[k]))
             usable == { r \in 1..Len(recipes) : Len(Requirements(recipes[r])) > 0 }
         IN IF usable = {} THEN ToolGatingFrom(w, invItems, toolNames, k + 1)
            ELSE ToolOverride(invItems, toolNames[k],
                              Requirements(recipes[FirstIndex(usable)]))

ToolGatingAnyTool(w, invItems, target) ==
    LET toolIds == HarvestTools(target)
        toolNames == [k \in 1..Len(toolIds) |-> ItemName(toolIds[k])]
    IN IF Len(toolIds) = 0 THEN <<>>
       ELSE ToolGatingFrom(w, invItems, toolNames, 1)

\* lines 408-455: the block's harvest tools against the inventory
ToolGating(w, invItems, target) ==
    LET toolIds == HarvestTools(target)
        toolNames == [k \in 1..Len(toolIds) |-> ItemName(toolIds[k])]
        hasTool == \E i \in 1..Len(invItems) : \E k \in 1..Len(toolNames) :
                       invItems[i].name = toolNames[k]
    IN IF Len(toolIds) = 0 THEN <<>>
       ELSE IF hasTool THEN <<>>
       ELSE ToolGatingFrom(w, invItems, toolNames, 1)

\* the rules on a collect/search command, once its target is known
CollectRulesShortcutFirst(w, invItems, s, target) ==
    IF IsWoodTask(target) /\ HasIronAxeMats(invItems)
    THEN Override("shortcut: craft iron axe", Command2(craftRecipe, IronAxe, 1))
    ELSE IF target = Cobblestone
    THEN Override("cobblestone: mine stone", Command2(collectBlocks, Stone, RequestedCount(s)))
    ELSE IF target \in GenericWood
    THEN IF CmdName(s) = <<searchForBlock>>
         THEN Override("generic wood", Command2(searchForBlock, AcaciaLog, 32))
         ELSE Override("generic wood", Command2(collectBlocks, AcaciaLog, 4))
    ELSE ToolGating(w, invItems, target)

CollectRules(w, invItems, s, target) ==
    IF target = Cobblestone
    THEN Override("cobblestone: mine stone", Command2(collectBlocks, Stone, RequestedCount(s)))
    ELSE IF target \in GenericWood
    THEN IF CmdName(s) = <<searchForBlock>>
         THEN Override("generic wood", Command2(searchForBlock, AcaciaLog, 32))
         ELSE Override("generic wood", Command2(collectBlocks, AcaciaLog, 4))
    ELSE IF IsWoodTask(target) /\ HasIronAxeMats(invItems)
    THEN Override("shortcut: craft iron axe", Command2(craftRecipe, IronAxe, 1))
    ELSE ToolGating(w, invItems, target)

\* analyzeTaskRequirements(commandString) on the bot w: <<>> for null
AnalyzeTaskRequirements(w, s) ==
    IF ~w.inventory THEN <<>>
    ELSE IF ~TruthyText(s) THEN <<>>
    ELSE IF w.itemsThrow THEN Throws
    ELSE LET invItems == w.items
             smeltMatch == CallArg(s, {smeltItem})
             attackMatch == CallArg(s, {attack})
             match == CallArg(s, {collectBlocks, searchForBlock})
         IN IF smeltMatch # <<>> /\ ~NearbyFurnace(w) THEN SmeltGating(w, invItems)
            ELSE IF attackMatch # <<>> /\ LikelyBlock(w, ToLower(attackMatch[1]))
            THEN Override("attack: collect", Command2(collectBlocks, ToLower(attackMatch[1]), 1))
            ELSE IF match = <<>> THEN <<>>
            ELSE IF ~w.registry THEN <<>>
            ELSE CollectRules(w, invItems, s, ToLower(match[1]))

\* response.match(/![a-zA-Z0-9_]+\([^)]*\)/): <<>> for no match, else
\* <<the leftmost match>>
FirstCommand(s) ==
    LET starts == { i \in 1..Len(s) :
                      /\ s[i] = "!"
                      /\ RunEnd(s, i + 1, WordChars) > i
                      /\ RunEnd(s, i + 1, WordChars) < Len(s)
                      /\ s[RunEnd(s, i + 1, WordChars) + 1] = "("
                      /\ \E c \in (RunEnd(s, i + 1, WordChars) + 2)..Len(s) : s[c] = ")" }
    IN IF starts = {} THEN <<>>
       ELSE LET i == CHOOSE x \in starts : \A y \in starts : x <= y
                o == RunEnd(s, i + 1, WordChars) + 1
            IN <<SubSeq(s, i, RunEnd(s, o + 1, Chars(s) \ {")"}) + 1)>>

\* what applyTaskOverrides returns: the response as it came, or the
\* rewritten `THOUGHT: ${thought}\nCOMMAND: ${override.command}`
Unchanged(response) == [raised |-> FALSE, rewritten |-> FALSE, thought |-> "", text |-> response]
Rewritten(override) ==
    [raised |-> FALSE, rewritten |-> TRUE, thought |-> override.advice, text |-> override.command]
Raised == [raised |-> TRUE, rewritten |-> FALSE, thought |-> "", text |-> <<>>]

ApplyTaskOverridesResult(w, response) ==
    IF ~TruthyText(response) THEN Unchanged(response)
    ELSE LET commandMatch == FirstCommand(response)
         IN IF commandMatch = <<>> THEN Unchanged(response)
            ELSE LET override == AnalyzeTaskRequirements(w, commandMatch[1])
                 IN IF override = Throws THEN Raised
                    ELSE IF override = <<>> THEN Unchanged(response)
                    ELSE Rewritten(override[1])

(***************************************************************************)
(* The commands and responses the override chain is given.                 *)
(***************************************************************************)
CmdSmelt ==
    <<"!", "s", "m", "e", "l", "t", "I", "t", "e", "m", "(", "\"", "r", "a",
      "w", "_", "i", "r", "o", "n", "\"", ",", " ", "1", ")">>
CmdSmeltLoose ==
    <<"!", "S", "M", "E", "L", "T", "I", "T", "E", "M", "(", " ", "'", "r",
      "a", "w", "_", "i", "r", "o", "n", "'", " ", ")">>
CmdAttackMob ==
    <<"!", "a", "t", "t", "a", "c", "k", "(", "\"", "z", "o", "m", "b", "i",
      "e", "\"", ")">>
CmdAttackOre ==
    <<"!", "a", "t", "t", "a", "c", "k", "(", "\"", "I", "r", "o", "n", "_",
      "O", "r", "e", "\"", ")">>
CmdAttackFurnace ==
    <<"!", "a", "t", "t", "a", "c", "k", "(", "\"", "f", "u", "r", "n", "a",
      "c", "e", "\"", ")">>
CmdSearchCobble ==
    <<"!", "s", "e", "a", "r", "c", "h", "F", "o", "r", "B", "l", "o", "c",
      "k", "(", "\"", "c", "o", "b", "b", "l", "e", "s", "t", "o", "n", "e",
      "\"", ",", " ", "1", "6", ")">>
CmdCollectLog ==
    <<"!", "c", "o", "l", "l", "e", "c", "t", "B", "l", "o", "c", "k", "s",
      "(", "\"", "l", "o", "g", "\"", ",", " ", "2", ")">>
CmdSearchPlanks ==
    <<"!", "s", "e", "a", "r", "c", "h", "F", "o", "r", "B", "l", "o", "c",
      "k", "(", "\"", "p", "l", "a", "n", "k", "s", "\"", ",", " ", "1", "0",
      ")">>
CmdCollectOakLog ==
    <<"!", "c", "o", "l", "l", "e", "c", "t", "B", "l", "o", "c", "k", "s",
      "(", "'", "O", "a", "k", "_", "L", "o", "g", "'", ",", " ", "4", ")">>
CmdSearchOakLog ==
    <<"!", "s", "e", "a", "r", "c", "h", "F", "o", "r", "B", "l", "o", "c",
      "k", "(", " ", "\"", "o", "a", "k", "_", "l", "o", "g", "\"", ",", " ",
      "1", "6", ")">>
CmdCollectIronOre ==
    <<"!", "c", "o", "l", "l", "e", "c", "t", "B", "l", "o", "c", "k", "s",
      "(", "\"", "i", "r", "o", "n", "_", "o", "r", "e", "\"", ",", " ", "2",
      ")">>
CmdCollectStone ==
    <<"!", "c", "o", "l", "l", "e", "c", "t", "B", "l", "o", "c", "k", "s",
      "(", "\"", "s", "t", "o", "n", "e", "\"", ",", " ", "1", ")">>
CmdCraftStick ==
    <<"!", "c", "r", "a", "f", "t", "R", "e", "c", "i", "p", "e", "(", "\"",
      "s", "t", "i", "c", "k", "\"", ",", " ", "2", ")">>
CmdCollectBare ==
    <<"!", "c", "o", "l", "l", "e", "c", "t", "B", "l", "o", "c", "k", "s",
      "(", "o", "a", "k", "_", "l", "o", "g", ",", " ", "1", ")">>
RespPlain == <<"I", " ", "w", "i", "l", "l", " ", "w", "a", "i", "t", ".">>
RespSmelt ==
    <<"S", "m", "e", "l", "t", "i", "n", "g", " ", "n", "o", "w", ".", " ",
      "!", "s", "m", "e", "l", "t", "I", "t", "e", "m", "(", "\"", "r", "a",
      "w", "_", "i", "r", "o", "n", "\"", ",", " ", "1", ")", " ", "t", "h",
      "e", "n", " ", "!", "c", "o", "l", "l", "e", "c", "t", "B", "l", "o",
      "c", "k", "s", "(", "\"", "l", "o", "g", "\"", ",", " ", "1", ")">>
RespCollect ==
    <<"o", "k", " ", "!", "c", "o", "l", "l", "e", "c", "t", "B", "l", "o",
      "c", "k", "s", "(", "\"", "o", "a", "k", "_", "l", "o", "g", "\"", ",",
      " ", "4", ")">>
RespOpen ==
    <<"!", "c", "o", "l", "l", "e", "c", "t", "B", "l", "o", "c", "k", "s",
      "(", "\"", "o", "a", "k", "_", "l", "o", "g", "\"", ",", " ", "4">>

Commands ==
    { UndefinedText, <<>>, CmdSmeltLoose, CmdSmelt, CmdAttackMob, CmdAttackOre, CmdAttackFurnace,
      CmdCollectCobble, CmdSearchCobble, CmdCollectLog, CmdSearchPlanks,
      CmdCollectOakLog, CmdSearchOakLog, CmdCollectIronOre, CmdCollectStone,
      CmdCraftStick, CmdCollectBare }

OverrideResponses ==
    { UndefinedText, RespPlain, RespSmelt, RespCollect, RespOpen }

\* the methods keep no state: one call on each bot
AnalyzeCall(s) ==
    /\ cOp = "constructor"
    /\ cOp' = "analyzeTaskRequirements"
    /\ cArg' = s
    /\ cRet' = AnalyzeTaskRequirements(world, s)
    /\ UNCHANGED <<world, missionVars, ledgerVars, raceVars, turnVars>>

ApplyTaskOverrides(response) ==
    /\ cOp = "constructor"
    /\ cOp' = "applyTaskOverrides"
    /\ cArg' = response
    /\ cRet' = ApplyTaskOverridesResult(world, response)
    /\ UNCHANGED <<world, missionVars, ledgerVars, raceVars, turnVars>>


(***************************************************************************)
(* ImplicitEnhancer: normalizeCommandsInResponse                           *)
(***************************************************************************)
startConversation ==
    <<"s", "t", "a", "r", "t", "C", "o", "n", "v", "e", "r", "s", "a", "t",
      "i", "o", "n">>
setMode == <<"s", "e", "t", "M", "o", "d", "e">>
stop == <<"s", "t", "o", "p">>
ParamName == <<"n", "a", "m", "e">>
ParamCount == <<"c", "o", "u", "n", "t">>
ParamType == <<"t", "y", "p", "e">>
ParamRange == <<"s", "e", "a", "r", "c", "h", "_", "r", "a", "n", "g", "e">>
ParamModeName == <<"m", "o", "d", "e", "_", "n", "a", "m", "e">>
ParamOn == <<"o", "n">>

Param(name, type) == [name |-> name, type |-> type]

\* actionMap: the declared parameters of a command, by its name in lower
\* case; Object.entries(def.params) in declaration order
NoParams == <<Param(<<>>, "<none>")>>
ActionParams(key) ==
    CASE key = ToLower(craftRecipe) -> <<Param(ParamName, "string"), Param(ParamCount, "int")>>
      [] key = ToLower(searchForBlock) -> <<Param(ParamType, "string"), Param(ParamRange, "float")>>
      [] key = ToLower(setMode) -> <<Param(ParamModeName, "string"), Param(ParamOn, "boolean")>>
      [] OTHER -> NoParams

\* /^[-+]?\d+(\.\d+)?$/.test(provided)
IsNumeric(tok) ==
    LET d == IF Len(tok) > 0 /\ tok[1] \in {"-", "+"} THEN 2 ELSE 1
        e == RunEnd(tok, d, Digits)
    IN /\ e >= d
       /\ \/ e = Len(tok)
          \/ /\ e + 2 <= Len(tok)
             /\ tok[e + 1] = "."
             /\ RunEnd(tok, e + 2, Digits) = Len(tok)

\* provided.replace(/^['"]|['"]$/g, '')
Unquoted(tok) ==
    LET from == IF Len(tok) > 0 /\ tok[1] \in Quotes THEN 2 ELSE 1
        to == IF Len(tok) > 1 /\ tok[Len(tok)] \in Quotes THEN Len(tok) - 1 ELSE Len(tok)
    IN SubSeq(tok, from, to)

NumericDefault(param) ==
    IF Includes(ToLower(param.name), <<"r", "a", "n", "g", "e">>)
       \/ Includes(ToLower(param.name), <<"d", "i", "s", "t">>)
    THEN <<"3", "2">> ELSE <<"1">>

\* the body of the loop of enforceActionSchema for parameter i
EnforcedArg(param, args, i) ==
    IF i > Len(args)
    THEN IF param.type \in {"int", "float"} THEN NumericDefault(param)
         ELSE IF param.type = "boolean" THEN <<"t", "r", "u", "e">>
         ELSE <<"\"", "\"">>
    ELSE IF param.type \in {"int", "float"}
         THEN IF IsNumeric(args[i]) THEN args[i] ELSE NumericDefault(param)
         ELSE IF param.type = "boolean"
         THEN IF Includes(ToLower(args[i]), <<"f", "a", "l", "s", "e">>)
              THEN <<"f", "a", "l", "s", "e">> ELSE <<"t", "r", "u", "e">>
         ELSE <<"\"">> \o Unquoted(args[i]) \o <<"\"">>

\* enforceActionSchema(cmdName, args)
EnforceActionSchema(cmdName, args) ==
    LET expected == ActionParams(ToLower(cmdName))
    IN IF expected = NoParams THEN args
       ELSE [i \in 1..Len(expected) |-> EnforcedArg(expected[i], args, i)]

\* rawArgStr.replace(/,/g, ' ')
CommasToSpaces(t) == [i \in 1..Len(t) |-> IF t[i] = "," THEN " " ELSE t[i]]

\* the index of the next q after p, 0 if there is none
NextIndex(t, p, q) ==
    IF \E k \in (p + 1)..Len(t) : t[k] = q
    THEN CHOOSE k \in (p + 1)..Len(t) : t[k] = q /\ \A j \in (p + 1)..(k - 1) : t[j] # q
    ELSE 0

\* t.match(/"[^"]*"|'[^']*'|[^,\s]+/g) || [], from index p on
RECURSIVE TokensFrom(_, _)
TokensFrom(t, p) ==
    IF p > Len(t) THEN <<>>
    ELSE IF t[p] \in Quotes /\ NextIndex(t, p, t[p]) # 0
    THEN <<SubSeq(t, p, NextIndex(t, p, t[p]))>> \o TokensFrom(t, NextIndex(t, p, t[p]) + 1)
    ELSE IF t[p] \notin Whitespace \cup {","}
    THEN LET e == RunEnd(t, p, Chars(t) \ (Whitespace \cup {","}))
         IN <<SubSeq(t, p, e)>> \o TokensFrom(t, e + 1)
    ELSE TokensFrom(t, p + 1)

\* finalArgs.join(', ')
RECURSIVE Joined(_)
Joined(args) ==
    IF args = <<>> THEN <<>>
    ELSE IF Len(args) = 1 THEN args[1]
    ELSE args[1] \o <<",", " ">> \o Joined(Tail(args))

\* the replacer: `!${cmd}(${finalArgs.join(', ')})`
Replacement(cmd, rawArgs) ==
    <<"!">> \o cmd \o <<"(">>
        \o Joined(EnforceActionSchema(cmd, TokensFrom(CommasToSpaces(rawArgs), 1)))
        \o <<")">>

\* the characters that end ([^)\n!.?]*)
ArgStops == {")", "\n", "!", ".", "?"}

\* /!([a-zA-Z0-9_]+)(?:[ (]*)([^)\n!.?]*)(?:[)]?)/g matched at index i: where
\* the name ends, where the arguments start and end, where the match ends
NameEnd(s, i) == RunEnd(s, i + 1, WordChars)
ArgsStart(s, i) == RunEnd(s, NameEnd(s, i) + 1, {" ", "("}) + 1
ArgsEnd(s, i) == RunEnd(s, ArgsStart(s, i), Chars(s) \ ArgStops)
MatchEnd(s, i) ==
    IF ArgsEnd(s, i) < Len(s) /\ s[ArgsEnd(s, i) + 1] = ")"
    THEN ArgsEnd(s, i) + 1 ELSE ArgsEnd(s, i)

\* response.replace(regex, replacer), from index i on
RECURSIVE ReplacedFrom(_, _)
ReplacedFrom(s, i) ==
    IF i > Len(s) THEN <<>>
    ELSE IF s[i] = "!" /\ NameEnd(s, i) > i
    THEN Replacement(SubSeq(s, i + 1, NameEnd(s, i)),
                     SubSeq(s, ArgsStart(s, i), ArgsEnd(s, i)))
             \o ReplacedFrom(s, MatchEnd(s, i) + 1)
    ELSE <<s[i]>> \o ReplacedFrom(s, i + 1)

SuppressedAtStart(response) == HasAt(response, 1, <<"!">> \o startConversation)

\* /!startConversation/i.test(response)
Suppressed(response) == Includes(ToLower(response), ToLower(<<"!">> \o startConversation))

\* normalizeCommandsInResponse(response)
NormalizeCommandsInResponse(response) ==
    IF ~TruthyText(response) THEN response
    ELSE IF Suppressed(response) THEN <<>>
    ELSE ReplacedFrom(response, 1)

(***************************************************************************)
(* The responses the normalizer is given: a command written one way or     *)
(* another, inside some text.                                              *)
(***************************************************************************)
StickBare == <<"s", "t", "i", "c", "k">>
StickSingle == <<"'", "s", "t", "i", "c", "k", "'">>
StickDouble == <<"\"", "s", "t", "i", "c", "k", "\"">>
StickKeyed == <<"n", "a", "m", "e", "=", "\"", "s", "t", "i", "c", "k", "\"">>
NumTwo == <<"2">>
NumMinusThree == <<"-", "3">>
NumDecimal == <<"2", ".", "5">>
NumWord == <<"t", "w", "o">>
OreBare == <<"i", "r", "o", "n", "_", "o", "r", "e">>
OreDouble == <<"\"", "i", "r", "o", "n", "_", "o", "r", "e", "\"">>
ModeBare == <<"h", "u", "n", "t", "i", "n", "g">>
BoolFalse == <<"F", "A", "L", "S", "E">>
BoolTrue == <<"t", "r", "u", "e">>
BoolYes == <<"y", "e", "s">>
BobDouble == <<"\"", "b", "o", "b", "\"">>
PrefixText == <<"o", "k", " ">>
SuffixSentence == <<".", " ", "d", "o", "n", "e">>
SuffixCommand == <<"\n", "!", "s", "t", "o", "p">>
SuffixChat ==
    <<" ", "t", "h", "e", "n", " ", "!", "s", "t", "a", "r", "t", "C", "o",
      "n", "v", "e", "r", "s", "a", "t", "i", "o", "n", "(", "\"", "b", "o",
      "b", "\"", ",", " ", "\"", "h", "i", "\"", ")">>
unknownAction == <<"n", "e", "w", "A", "c", "t", "i", "o", "n">>

StringForms == {StickBare, StickSingle, StickDouble, StickKeyed}
NumberForms == {NumTwo, NumMinusThree, NumDecimal, NumWord}

\* a command name and the arguments as the model wrote them
Call(name, args) == [name |-> name, args |-> args]
Calls ==
    { Call(craftRecipe, <<>>) }
    \cup { Call(n, <<s>>) : n \in {craftRecipe, ToLower(craftRecipe)}, s \in StringForms }
    \cup { Call(craftRecipe, <<s, n>>) : s \in StringForms, n \in NumberForms }
    \cup { Call(craftRecipe, <<StickDouble, NumTwo, NumTwo>>) }
    \cup { Call(searchForBlock, <<s>>) : s \in {OreBare, OreDouble} }
    \cup { Call(searchForBlock, <<s, n>>) : s \in {OreBare, OreDouble}, n \in NumberForms }
    \cup { Call(setMode, <<ModeBare, b>>) : b \in {BoolFalse, BoolTrue, BoolYes} }
    \cup { Call(stop, <<>>), Call(unknownAction, <<StickBare, NumTwo>>) }
    \cup { Call(n, <<BobDouble>>) : n \in {startConversation, ToLower(startConversation)} }

\* how a call is written: the opening, the separator and the closing
Writings ==
    { [open |-> <<"(">>, sep |-> <<",", " ">>, close |-> <<")">>],
      [open |-> <<"(">>, sep |-> <<" ">>, close |-> <<")">>],
      [open |-> <<" ">>, sep |-> <<" ">>, close |-> <<>>],
      [open |-> <<"(">>, sep |-> <<",">>, close |-> <<>>] }

RECURSIVE Separated(_, _)
Separated(args, sep) ==
    IF args = <<>> THEN <<>>
    ELSE IF Len(args) = 1 THEN args[1]
    ELSE args[1] \o sep \o Separated(Tail(args), sep)

Written(c, w) == <<"!">> \o c.name \o w.open \o Separated(c.args, w.sep) \o w.close

NormalizerResponses ==
    { UndefinedText, <<>>, RespPlain }
    \cup { pre \o Written(c, w) \o post :
           pre \in {<<>>, PrefixText}, c \in Calls, w \in Writings,
           post \in {<<>>, SuffixSentence, SuffixCommand} }
    \cup { Written(c, w) \o SuffixChat : c \in Calls, w \in Writings }

NormalizeCall(response) ==
    /\ cOp = "constructor"
    /\ cOp' = "normalizeCommandsInResponse"
    /\ cArg' = response
    /\ cRet' = NormalizeCommandsInResponse(response)
    /\ UNCHANGED <<world, missionVars, ledgerVars, raceVars, turnVars>>

(***************************************************************************)
(* Calls of the override chain and of the normalizer.                      *)
(***************************************************************************)
\* no call yet
InitCall ==
    /\ cOp = "constructor"
    /\ cArg = <<>>
    /\ cRet = <<>>

\* an ImplicitEnhancer whose agent has no bot
NoBot ==
    [inventory |-> FALSE, itemsThrow |-> FALSE, items |-> <<>>, findBlock |-> "absent",
     registry |-> FALSE, recipes |-> "none"]

InitCalls ==
    /\ world = NoBot
    /\ InitCall

(***************************************************************************)
(* ImplicitEnhancer.sendRequest: one conversation turn                     *)
(***************************************************************************)
\* what the model answers to the classification request of
\* determineIntentType; RequestFails stands for a rejected request
RequestFails == <<"<throws>">>
ReplyProse ==
    <<"B", "U", "I", "L", "D", ",", " ", "a", " ", "h", "o", "u", "s", "e">>
ReplyBuild ==
    <<"S", "u", "r", "e", ":", " ", "{", "\"", "t", "y", "p", "e", "\"", ":",
      "\"", "B", "U", "I", "L", "D", "\"", ",", "\"", "s", "u", "b", "t",
      "y", "p", "e", "\"", ":", "\"", "h", "o", "u", "s", "e", "\"", "}">>
ReplyCraft ==
    <<"{", "\"", "t", "y", "p", "e", "\"", ":", "\"", "C", "R", "A", "F",
      "T", "\"", ",", "\"", "s", "u", "b", "t", "y", "p", "e", "\"", ":",
      "\"", "t", "o", "o", "l", "\"", "}">>
ReplyTypeOnly ==
    <<"{", "\"", "t", "y", "p", "e", "\"", ":", "\"", "B", "U", "I", "L",
      "D", "\"", "}">>
ReplyBroken ==
    <<"{", "t", "y", "p", "e", ":", " ", "B", "U", "I", "L", "D", "}">>
JsonBuild ==
    <<"{", "\"", "t", "y", "p", "e", "\"", ":", "\"", "B", "U", "I", "L",
      "D", "\"", ",", "\"", "s", "u", "b", "t", "y", "p", "e", "\"", ":",
      "\"", "h", "o", "u", "s", "e", "\"", "}">>
EmptyObject == <<"{", "}">>
UtterHouse == <<"h", "o", "u", "s", "e">>
UtterPick == <<"p", "i", "c", "k">>

ClassifierReplies ==
    {RequestFails, ReplyProse, ReplyBuild, ReplyCraft, ReplyTypeOnly, ReplyBroken}

\* the latest user message of the turns: UndefinedText when there is none
Utterances == {UndefinedText, UtterHouse, UtterPick}

\* analysis.match(/\{[\s\S]*\}/), then match ? match[0] : '{}': the text from
\* the first "{" that a "}" follows to the last "}"
JsonText(analysis) ==
    LET opens == { i \in 1..Len(analysis) : analysis[i] = "{" }
        closes == { i \in 1..Len(analysis) : analysis[i] = "}" }
        o == FirstIndex(opens)
        after == { c \in closes : c > o }
    IN IF o = 0 \/ after = {} THEN EmptyObject
       ELSE SubSeq(analysis, o, CHOOSE c \in after : \A d \in after : d <= c)

\* JSON.parse of the payloads the replies carry, read as result.type and
\* result.subtype: a missing key reads undefined, a text that is no JSON throws
ParsedJson(jsonText) ==
    CASE jsonText = EmptyObject -> [throws |-> FALSE, type |-> Undef, subtype |-> Undef]
      [] jsonText = JsonBuild -> [throws |-> FALSE, type |-> "BUILD", subtype |-> "house"]
      [] jsonText = ReplyCraft -> [throws |-> FALSE, type |-> "CRAFT", subtype |-> "tool"]
      [] jsonText = ReplyTypeOnly -> [throws |-> FALSE, type |-> "BUILD", subtype |-> Undef]
      [] OTHER -> [throws |-> TRUE, type |-> Undef, subtype |-> Undef]

\* the catch branch of determineIntentType
FallbackIntent == [type |-> "GENERAL", subtype |-> "unknown"]

DetermineIntentTypeAlwaysFallback(reply) == FallbackIntent

\* determineIntentType: one request, the reply parsed inside try/catch
DetermineIntentType(reply) ==
    IF reply = RequestFails THEN FallbackIntent
    ELSE LET result == ParsedJson(JsonText(reply))
         IN IF result.throws THEN FallbackIntent
            ELSE [type |-> result.type, subtype |-> result.subtype]

\* getIntent: null (<<>>) without a user message, else the classified intent
GetIntent(utterance, reply) ==
    IF ~TruthyText(utterance) THEN <<>>
    ELSE LET t == DetermineIntentType(reply)
         IN <<[type |-> t.type, subtype |-> t.subtype, input |-> utterance]>>

\* INTENT_TO_TRAINING_FILE[intent.type] || DEFAULT_TRAINING_FILE, then the
\* files getRelevantTrainingFiles adds for the type
RelevantTrainingFiles(intent) ==
    CASE intent.type = "BUILD" -> <<"build_examples.json", "crafting_examples.json">>
      [] intent.type = "CRAFT" -> <<"crafting_examples.json", "craft_examples.json">>
      [] OTHER -> <<"build_examples.json">>

\* the examples each training file holds
TrainingFile(name) ==
    CASE name = "build_examples.json" -> <<1>>
      [] name = "crafting_examples.json" -> <<ToolPlan>>
      [] name = "craft_examples.json" -> <<2>>
      [] OTHER -> <<>>

\* getRelevantInfo: the examples of the files that can be read, in order; a
\* file that cannot be read is skipped by its catch
GetRelevantInfo(intent, readable) ==
    IF intent = <<>> \/ ~readable THEN <<>>
    ELSE LET files == RelevantTrainingFiles(intent[1])
             Rec[k \in 0..Len(files)] ==
                 IF k = 0 THEN <<>> ELSE Rec[k - 1] \o TrainingFile(files[k])
         IN Rec[Len(files)]

\* the command improvePrompt puts after "MANDATORY COMMAND:" for an active
\* mission: action_cmd[0] of the step at the clamped index, or '!inventory',
\* replaced by the command of analyzeTaskRequirements for a !collectBlocks
NoCommand == [raised |-> FALSE, consulted |-> FALSE, command |-> UndefinedText]

Inventory == <<"!", "i", "n", "v", "e", "n", "t", "o", "r", "y">>

StepCommand(am, sh, lh) ==
    LET last == IF Len(am.steps) - 1 > 0 THEN Len(am.steps) - 1 ELSE 0
        safeIndex == Min(am.currentStep, last)
        own == ExpectedCmd([am EXCEPT !.currentStep = safeIndex], sh, lh)
    IN IF TruthyText(own) THEN own ELSE Inventory

MandatoryCommandOwn(am, sh, lh, w) ==
    [raised |-> FALSE, consulted |-> FALSE, command |-> StepCommand(am, sh, lh)]

MandatoryCommand(am, sh, lh, w) ==
    LET requiredCmd == StepCommand(am, sh, lh)
    IN IF CallArg(requiredCmd, {collectBlocks}) = <<>>
       THEN [raised |-> FALSE, consulted |-> FALSE, command |-> requiredCmd]
       ELSE LET override == AnalyzeTaskRequirements(w, requiredCmd)
            IN IF override = Throws
               THEN [raised |-> TRUE, consulted |-> TRUE, command |-> requiredCmd]
               ELSE IF override = <<>>
               THEN [raised |-> FALSE, consulted |-> TRUE, command |-> requiredCmd]
               ELSE [raised |-> FALSE, consulted |-> TRUE, command |-> override[1].command]

\* claimTask on the ledger f at time ms: the task returned and the file left
Claimed(f, self, a, ms, rnd) ==
    LET tasks == Load(f)
        taskSummary == TaskSummary(a.summary, a.intent)
        existing == FirstIndex({ i \in 1..Len(tasks) : SameActiveGoal(tasks[i], a.agent, taskSummary) })
    IN IF existing # 0
       THEN [saved |-> FALSE, task |-> tasks[existing], file |-> f]
       ELSE [saved |-> TRUE, task |-> NewTask(self, a, ms, rnd),
             file |-> [tasks |-> Pushed(tasks, NewTask(self, a, ms, rnd))]]

\* updateStatus on the ledger f at time ms
StatusSet(f, id, status, ms, extra) ==
    LET tasks == Load(f)
        found == FirstIndex({ i \in 1..Len(tasks) : tasks[i].id = id })
    IN IF found = 0 THEN [saved |-> FALSE, file |-> f]
       ELSE [saved |-> TRUE,
             file |-> [tasks |-> [tasks EXCEPT ![found] = UpdatedTask(@, status, ms, extra)]]]

\* what one turn is given: the content of the last assistant turn, the
\* latest user message, the reply to the classification request, the
\* model's response, and which operation of the environment fails
\*   "training": the training files cannot be read
\*   "respond":  the model rejects the response request
\*   "save":     the ledger file cannot be written
Faults == {"none", "training", "respond", "save"}

TurnInput(prior, utterance, reply, response, fault) ==
    [prior |-> prior, utterance |-> utterance, reply |-> reply,
     response |-> response, fault |-> fault]

\* improvePrompt's activation branch on the mission am: what it leaves
Activation(am, sh, lh, c, intent, info) ==
    IF ShouldActivate(am, intent, info)
    THEN LET ex == Examples[PrimaryExample(info)]
         IN [activated |-> TRUE, mission |-> ActivatedMission(ex, intent),
             steps |-> ActivatedSteps(sh, ex), lists |-> ActivatedLists(sh, lh, ex),
             coop |-> [n |-> Len(ex.plan), k |-> 0]]
    ELSE [activated |-> FALSE, mission |-> am, steps |-> sh, lists |-> lh, coop |-> c]

\* if (intent && this.sharedMemory && this.enableTeamContext) claimTask(...),
\* then this.lastClaimedTaskId = task?.id; a file that cannot be written
\* makes the _save of a new task throw
ClaimStage(reached, intent, fault, f, id, ms, rnd) ==
    IF ~reached \/ intent = <<>>
    THEN [called |-> FALSE, raised |-> FALSE, file |-> f, id |-> id]
    ELSE LET claim == Claimed(f, "alice",
                              [agent |-> "alice", intent |-> intent,
                               summary |-> intent[1].input, status |-> "planning"], ms, rnd)
         IN IF claim.saved /\ fault = "save"
            THEN [called |-> TRUE, raised |-> TRUE, file |-> f, id |-> id]
            ELSE [called |-> TRUE, raised |-> FALSE, file |-> claim.file, id |-> claim.task.id]

\* markTaskInProgress({ lastResponse: res }): updateStatus when an id is held
MarkStage(reached, fault, f, id, ms) ==
    IF ~reached \/ id = NoId
    THEN [called |-> FALSE, raised |-> FALSE, file |-> f]
    ELSE LET mark == StatusSet(f, id, "in_progress", ms, [NoExtra EXCEPT !.lastResponse = "res"])
         IN IF mark.saved /\ fault = "save"
            THEN [called |-> TRUE, raised |-> TRUE, file |-> f]
            ELSE [called |-> TRUE, raised |-> FALSE, file |-> mark.file]

\* the statement whose exception leaves sendRequest, "" when it returns
RaisedAt(mandatory, claim, respondRaised, mark, adjustRaised) ==
    IF mandatory.raised THEN "improvePrompt"
    ELSE IF claim.raised THEN "claimTask"
    ELSE IF respondRaised THEN "innerEnhancer.sendRequest"
    ELSE IF mark.raised THEN "markTaskInProgress"
    ELSE IF adjustRaised THEN "applyTaskOverrides"
    ELSE ""

\* the same steps with the ledger written after the normalizer
TraceLedgerLast(classified, act, mandatory, claim, responds, mark, finishes) ==
    <<"updateMissionState">>
    \o (IF classified THEN <<"classify">> ELSE <<>>)
    \o <<"getRelevantInfo", "listActive">>
    \o (IF act.activated THEN <<"activate">> ELSE <<>>)
    \o (IF mandatory.consulted THEN <<"analyzeTaskRequirements">> ELSE <<>>)
    \o (IF responds THEN <<"respond">> ELSE <<>>)
    \o (IF finishes THEN <<"saveRelevantInfo", "normalize", "applyTaskOverrides">> ELSE <<>>)
    \o (IF claim.called THEN <<"claimTask">> ELSE <<>>)
    \o (IF mark.called THEN <<"updateStatus">> ELSE <<>>)

\* the steps of the turn that ran, in the order sendRequest takes them
Trace(classified, act, mandatory, claim, responds, mark, finishes) ==
    <<"updateMissionState">>
    \o (IF classified THEN <<"classify">> ELSE <<>>)
    \o <<"getRelevantInfo", "listActive">>
    \o (IF act.activated THEN <<"activate">> ELSE <<>>)
    \o (IF mandatory.consulted THEN <<"analyzeTaskRequirements">> ELSE <<>>)
    \o (IF claim.called THEN <<"claimTask">> ELSE <<>>)
    \o (IF responds THEN <<"respond">> ELSE <<>>)
    \o (IF mark.called THEN <<"updateStatus">> ELSE <<>>)
    \o (IF finishes THEN <<"saveRelevantInfo", "normalize", "applyTaskOverrides">> ELSE <<>>)

\* the content of the last assistant turn: none, a step's own command, or
\* the command the prompt made mandatory in its place
Priors == {UndefinedText, cmdA, CmdCollectCobble, CollectTwelveStone}

\* the turns sendRequest is called with
TurnInputs ==
    { TurnInput(p, UndefinedText, RequestFails, RespPlain, "none") : p \in Priors }
    \cup { TurnInput(p, u, r, RespPlain, "none") :
           p \in Priors, u \in Utterances \ {UndefinedText}, r \in {ReplyBuild, ReplyCraft} }
    \cup { TurnInput(UndefinedText, UtterHouse, r, RespPlain, "none") : r \in ClassifierReplies }
    \cup { TurnInput(UndefinedText, u, ReplyBuild, RespPlain, f) :
           u \in {UndefinedText, UtterHouse}, f \in Faults }
    \cup { TurnInput(UndefinedText, u, ReplyCraft, CmdCollectCobble, "none") :
           u \in {UndefinedText, UtterPick} }

\* before the first turn
NoTurn ==
    [number |-> 0, op |-> "constructor", utterance |-> UndefinedText, reply |-> RequestFails,
     fault |-> "none", afterUpdate |-> IdleMission, intent |-> <<>>, activated |-> FALSE,
     mandatory |-> UndefinedText, trace |-> <<>>, raisedAt |-> "",
     ret |-> Unchanged(<<>>)]

\* sendRequest, statement by statement
SendRequest(in, rnd) ==
    /\ turn.number < MaxTurns
    /\ \E am1 \in {UpdatedMission(activeMission, stepHeap, listHeap, in.prior)},
          intent \in {GetIntent(in.utterance, in.reply)} :
       \E info \in {GetRelevantInfo(intent, in.fault # "training")} :
       \E act \in {Activation(am1, stepHeap, listHeap,
                              StreakAfter(coop, MissionView, in.prior), intent, info)} :
       \E mandatory \in {IF act.mission.isActive
                         THEN MandatoryCommand(act.mission, act.steps, act.lists, world)
                         ELSE NoCommand} :
       \E claim \in {ClaimStage(~mandatory.raised, intent, in.fault, file,
                                lastClaimedTaskId, now, rnd)} :
       \E responds \in {~mandatory.raised /\ ~claim.raised} :
       \E respondRaised \in {responds /\ in.fault = "respond"} :
       \E mark \in {MarkStage(responds /\ ~respondRaised, in.fault, claim.file, claim.id, now)} :
       \E finishes \in {responds /\ ~respondRaised /\ ~mark.raised} :
       \E adjusted \in {IF finishes
                        THEN ApplyTaskOverridesResult(world, NormalizeCommandsInResponse(in.response))
                        ELSE Raised} :
       \E raisedAt \in {RaisedAt(mandatory, claim, respondRaised, mark, adjusted.raised)} :
          /\ Len(Load(mark.file)) <= MaxTasks
          /\ am1.failures <= MaxFailures
          /\ activeMission' = act.mission
          /\ stepHeap' = act.steps
          /\ listHeap' = act.lists
          /\ coop' = act.coop
          /\ file' = mark.file
          /\ lastClaimedTaskId' = claim.id
          /\ turn' = [number |-> turn.number + 1, op |-> "sendRequest",
                      utterance |-> in.utterance, reply |-> in.reply, fault |-> in.fault,
                      afterUpdate |-> am1, intent |-> intent,
                      activated |-> act.activated, mandatory |-> mandatory.command,
                      trace |-> Trace(TruthyText(in.utterance), act, mandatory, claim,
                                      responds, mark, finishes),
                      raisedAt |-> raisedAt,
                      ret |-> IF raisedAt # "" THEN Raised ELSE adjusted]
          /\ mOp' = "sendRequest"
          /\ mPrev' = MissionView
          /\ mArg' = [text |-> in.prior, intent |-> <<>>, info |-> <<>>]
          /\ lOp' = "sendRequest"
          /\ lArg' = LedgerArg(Undef, NoClaim, NoId, Undef, NoExtra, Undef)
          /\ lRet' = <<>>
          /\ cOp' = "sendRequest"
          /\ cArg' = in.response
          /\ cRet' = <<>>
          /\ UNCHANGED <<mutations, now, world, raceVars>>

\* updateStatus as markTaskDone and markTaskFailed call it: on the id this
\* enhancer claimed last, when it holds one
Marked(f, id, status, ms, extra) ==
    IF id # NoId THEN StatusSet(f, id, status, ms, extra).file ELSE f

\* markTaskDone(result)
MarkTaskDone(result) ==
    /\ turn.op = "sendRequest"
    /\ file' = Marked(file, lastClaimedTaskId, "done", now, [NoExtra EXCEPT !.result = result])
    /\ turn' = [turn EXCEPT !.op = "markTaskDone"]
    /\ lOp' = "markTaskDone"
    /\ lArg' = LedgerArg(Undef, NoClaim, lastClaimedTaskId, "done",
                         [NoExtra EXCEPT !.result = result], Undef)
    /\ lRet' = <<>>
    /\ UNCHANGED <<now, lastClaimedTaskId, missionVars, raceVars, callVars>>

\* markTaskFailed(reason)
MarkTaskFailed(reason) ==
    /\ turn.op = "sendRequest"
    /\ file' = Marked(file, lastClaimedTaskId, "failed", now, [NoExtra EXCEPT !.reason = reason])
    /\ turn' = [turn EXCEPT !.op = "markTaskFailed"]
    /\ lOp' = "markTaskFailed"
    /\ lArg' = LedgerArg(Undef, NoClaim, lastClaimedTaskId, "failed",
                         [NoExtra EXCEPT !.reason = reason], Undef)
    /\ lRet' = <<>>
    /\ UNCHANGED <<now, lastClaimedTaskId, missionVars, raceVars, callVars>>

\* no task claimed and no turn taken
InitTurn ==
    /\ lastClaimedTaskId = NoId
    /\ turn = NoTurn

(***************************************************************************)
(* Specifications                                                          *)
(***************************************************************************)
Init ==
    /\ activeMission = IdleMission
    /\ stepHeap = InitStepHeap
    /\ listHeap = InitListHeap
    /\ mutations = 0
    /\ mOp = "constructor"
    /\ mArg = [text |-> <<>>, intent |-> <<>>, info |-> <<>>]
    /\ mPrev = MissionViewOf(IdleMission, InitStepHeap, InitListHeap)
    /\ coop = NoStreak
    /\ file = [tasks |-> <<>>]
    /\ now = 0
    /\ lOp = "constructor"
    /\ lArg = LedgerArg(Undef, NoClaim, NoId, Undef, NoExtra, Undef)
    /\ lRet = <<>>
    /\ InitRace
    /\ InitCalls
    /\ InitTurn

\* the mission state machine of one ImplicitEnhancer
Next ==
    \/ \E text \in Responses : UpdateMissionState(text)
    \/ \E intent \in IntentArgs, info \in InfoArgs : ImprovePrompt(intent, info)
    \/ ResetMission

Spec == Init /\ [][Next]_vars

\* the same, with holders of the mission's steps and of the examples mutating them
AliasResponses == {UndefinedText, cmdA, cmdB}

AliasNext ==
    \/ \E text \in AliasResponses : UpdateMissionState(text)
    \/ \E intent \in IntentArgs, info \in InfoArgs : ImprovePrompt(intent, info)
    \/ ResetMission
    \/ MutateMissionSteps
    \/ MutateExample

AliasSpec == Init /\ [][AliasNext]_vars

\* the ledger file and the SharedMemory instances of the agents, one call at a time
LedgerNext ==
    \/ \E self \in Instances : \E a \in ClaimsOf(self), rnd \in 0..(RandomSpan - 1) : ClaimTask(self, a, rnd)
    \/ \E id \in IdArgs, status \in Statuses, extra \in DefaultExtra : UpdateStatus(id, status, extra)
    \/ \E id \in IdArgs, result \in ResultArgs : CompleteTask(id, result)
    \/ \E excludeAgent \in ExcludeArgs : ListActive(excludeAgent)
    \/ Tick

LedgerSpec == Init /\ [][LedgerNext]_vars

\* ledgers that claimTask has written: empty, one task, two tasks, and two
\* tasks claimed in the same millisecond with the same random suffix
ClaimAlice ==
    [agent |-> "alice", intent |-> <<[type |-> "BUILD", input |-> TextS]>>,
     summary |-> TextS, status |-> "planning"]
ClaimOther ==
    [agent |-> Undef, intent |-> <<>>, summary |-> <<>>, status |-> "done"]

ClaimedLedgers ==
    { [tasks |-> <<>>],
      [tasks |-> <<NewTask("alice", ClaimAlice, 0, 0)>>],
      [tasks |-> <<NewTask("alice", ClaimAlice, 0, 0), NewTask(Undef, ClaimOther, 0, 1)>>],
      [tasks |-> <<NewTask("alice", ClaimAlice, 0, 0), NewTask(Undef, ClaimOther, 0, 0)>>] }

UpdateInit ==
    /\ activeMission = IdleMission
    /\ stepHeap = InitStepHeap
    /\ listHeap = InitListHeap
    /\ mutations = 0
    /\ mOp = "constructor"
    /\ mArg = [text |-> <<>>, intent |-> <<>>, info |-> <<>>]
    /\ mPrev = MissionViewOf(IdleMission, InitStepHeap, InitListHeap)
    /\ coop = NoStreak
    /\ file \in ClaimedLedgers
    /\ now = 0
    /\ lOp = "constructor"
    /\ lArg = LedgerArg(Undef, NoClaim, NoId, Undef, NoExtra, Undef)
    /\ lRet = <<>>
    /\ InitRace
    /\ InitCalls
    /\ InitTurn

\* the updateStatus calls of markTaskInProgress() and
\* markTaskInProgress({lastResponse}), and of markTaskFailed(reason)
StatusCalls ==
    { [status |-> "in_progress", extra |-> NoExtra],
      [status |-> "in_progress", extra |-> [NoExtra EXCEPT !.lastResponse = "res"]],
      [status |-> "failed", extra |-> [NoExtra EXCEPT !.reason = "why"]] }

\* markTaskInProgress, markTaskFailed and markTaskDone on a claimed ledger
UpdateNext ==
    \/ \E id \in IdArgs, c \in StatusCalls : UpdateStatus(id, c.status, c.extra)
    \/ \E id \in IdArgs, result \in ResultArgs : CompleteTask(id, result)
    \/ Tick

UpdateSpec == UpdateInit /\ [][UpdateNext]_vars

\* two agent processes, each claiming its task and then reporting on it
RaceNext ==
    \E p \in Procs :
        \/ BeginClaim(p) /\ UNCHANGED <<missionVars, now, lOp, lArg, lRet, callVars, turnVars>>
        \/ EndClaim(p) /\ UNCHANGED <<missionVars, now, lOp, lArg, lRet, callVars, turnVars>>
        \/ \E status \in {"in_progress", "failed"} :
              BeginUpdate(p, status) /\ UNCHANGED <<missionVars, now, lOp, lArg, lRet, callVars, turnVars>>
        \/ EndUpdate(p) /\ UNCHANGED <<missionVars, now, lOp, lArg, lRet, callVars, turnVars>>

RaceSpec == Init /\ [][RaceNext]_vars

\* one bot, and the override chain called on proposed commands and responses
OverrideInit ==
    /\ activeMission = IdleMission
    /\ stepHeap = InitStepHeap
    /\ listHeap = InitListHeap
    /\ mutations = 0
    /\ mOp = "constructor"
    /\ mArg = [text |-> <<>>, intent |-> <<>>, info |-> <<>>]
    /\ mPrev = MissionViewOf(IdleMission, InitStepHeap, InitListHeap)
    /\ coop = NoStreak
    /\ file = [tasks |-> <<>>]
    /\ now = 0
    /\ lOp = "constructor"
    /\ lArg = LedgerArg(Undef, NoClaim, NoId, Undef, NoExtra, Undef)
    /\ lRet = <<>>
    /\ InitRace
    /\ world \in Worlds
    /\ InitCall
    /\ InitTurn

OverrideNext ==
    \/ \E s \in Commands : AnalyzeCall(s)
    \/ \E response \in OverrideResponses : ApplyTaskOverrides(response)

OverrideSpec == OverrideInit /\ [][OverrideNext]_vars

\* the ledger operations on a file that holds no task list, and on the file
\* a claim then leaves
CorruptInit ==
    /\ activeMission = IdleMission
    /\ stepHeap = InitStepHeap
    /\ listHeap = InitListHeap
    /\ mutations = 0
    /\ mOp = "constructor"
    /\ mArg = [text |-> <<>>, intent |-> <<>>, info |-> <<>>]
    /\ mPrev = MissionViewOf(IdleMission, InitStepHeap, InitListHeap)
    /\ coop = NoStreak
    /\ file \in CorruptFiles
    /\ now = 0
    /\ lOp = "constructor"
    /\ lArg = LedgerArg(Undef, NoClaim, NoId, Undef, NoExtra, Undef)
    /\ lRet = <<>>
    /\ InitRace
    /\ InitCalls
    /\ InitTurn

CorruptNext ==
    \/ \E excludeAgent \in ExcludeArgs : CorruptListActive(excludeAgent)
    \/ \E c \in StatusCalls : CorruptUpdateStatus(NoId, c.status, c.extra)
    \/ \E self \in Instances : \E a \in ClaimsOf(self), rnd \in 0..(RandomSpan - 1) :
           CorruptClaimTask(self, a, rnd)
    \/ WellFormed(file) /\ \E excludeAgent \in ExcludeArgs : ListActive(excludeAgent)
    \/ WellFormed(file) /\ \E id \in IdArgs, c \in StatusCalls : UpdateStatus(id, c.status, c.extra)
    \/ Tick

CorruptSpec == CorruptInit /\ [][CorruptNext]_vars

\* the agent of the ImplicitEnhancer: none, a bot with an empty inventory, or
\* one whose inventory query throws
BareBot ==
    [inventory |-> TRUE, itemsThrow |-> FALSE, items |-> <<>>, findBlock |-> "none",
     registry |-> TRUE, recipes |-> "known"]

TurnWorlds == {NoBot, BareBot, [BareBot EXCEPT !.itemsThrow = TRUE]}

TurnInit ==
    /\ activeMission = IdleMission
    /\ stepHeap = InitStepHeap
    /\ listHeap = InitListHeap
    /\ mutations = 0
    /\ mOp = "constructor"
    /\ mArg = [text |-> <<>>, intent |-> <<>>, info |-> <<>>]
    /\ mPrev = MissionViewOf(IdleMission, InitStepHeap, InitListHeap)
    /\ coop = NoStreak
    /\ file = [tasks |-> <<>>]
    /\ now = 0
    /\ lOp = "constructor"
    /\ lArg = LedgerArg(Undef, NoClaim, NoId, Undef, NoExtra, Undef)
    /\ lRet = <<>>
    /\ InitRace
    /\ world \in TurnWorlds
    /\ InitCall
    /\ InitTurn

\* conversation turns of one ImplicitEnhancer with team context enabled, and
\* the agent reporting the outcome of the claimed task between them
TurnNext ==
    \/ \E in \in TurnInputs, rnd \in 0..(RandomSpan - 1) : SendRequest(in, rnd)
    \/ MarkTaskDone("out")
    \/ MarkTaskFailed("why")

TurnSpec == TurnInit /\ [][TurnNext]_vars

\* the normalizer called on model output
NormalizeNext == \E response \in NormalizerResponses : NormalizeCall(response)

NormalizeSpec == Init /\ [][NormalizeNext]_vars

(***************************************************************************)
(* Properties of the mission state machine                                *)
(***************************************************************************)
Evaluated == mOp = "updateMissionState" /\ mPrev.isActive

\* C1: between operations 0 <= currentStep <= len(steps), and an Active
\* mission is never observed with currentStep = len(steps)
C1_StepInRange ==
    /\ activeMission.currentStep >= 0
    /\ activeMission.currentStep <= Len(activeMission.steps)
    /\ activeMission.isActive => activeMission.currentStep < Len(activeMission.steps)

\* C1 witness: the evaluation of the last step of a two-step plan has just
\* reset the mission
C1_Witness ==
    /\ Evaluated
    /\ Len(mPrev.steps) = 2 /\ mPrev.currentStep = 1
    /\ ~activeMission.isActive /\ activeMission.currentStep = 0

\* C2: over the evaluations of an Active mission currentStep never
\* decreases while the mission stays Active, and the evaluation that would
\* bring it to len(steps) leaves the mission Idle
C2_Monotone ==
    Evaluated =>
        /\ activeMission.isActive =>
              /\ activeMission.currentStep >= mPrev.currentStep
              /\ MissionView.steps = mPrev.steps
              /\ activeMission.planName = mPrev.planName
        /\ (SpecSuccess(mPrev, mArg.text) /\ mPrev.currentStep + 1 = Len(mPrev.steps))
              => ~activeMission.isActive

\* C2 witness: a failed evaluation at step 1 of 2 left the mission at step 1
C2_Witness ==
    /\ Evaluated
    /\ mPrev.currentStep = 1 /\ activeMission.isActive
    /\ activeMission.currentStep = 1 /\ activeMission.failures > 0

\* C3 as stated: success exactly under the heuristic; on success
\* currentStep is one more and failures is 0, otherwise failures is one more
\* and currentStep, steps and planName are unchanged
C3_AsStated ==
    Evaluated =>
        IF SpecSuccess(mPrev, mArg.text)
        THEN /\ activeMission.currentStep = mPrev.currentStep + 1
             /\ activeMission.failures = 0
        ELSE /\ activeMission.failures = mPrev.failures + 1
             /\ activeMission.currentStep = mPrev.currentStep
             /\ MissionView.steps = mPrev.steps
             /\ activeMission.planName = mPrev.planName

\* C3 amended: as stated, except that a success on the last step resets the
\* mission (Idle, no plan, currentStep 0, failures 0) instead of leaving
\* currentStep one higher
C3_Amended ==
    Evaluated =>
        IF SpecSuccess(mPrev, mArg.text)
        THEN IF mPrev.currentStep + 1 < Len(mPrev.steps)
             THEN MissionView = [mPrev EXCEPT !.currentStep = @ + 1, !.failures = 0]
             ELSE activeMission = IdleMission
        ELSE MissionView = [mPrev EXCEPT !.failures = @ + 1]

\* C3 witness: an output naming the command next to a failure keyword was
\* counted as a failure
C3_Witness ==
    /\ Evaluated
    /\ mArg.text = cmdA \o <<"E","r","r","o","r">>
    /\ mPrev.currentStep = 0 /\ Len(mPrev.steps) = 2
    /\ activeMission.failures = mPrev.failures + 1

\* C4: a failed evaluation, whatever the failures count, leaves the mission
\* Active at the same step; the turn flow (updateMissionState, improvePrompt)
\* leaves Active only in the evaluation that reaches the step count
C4_NoAbort ==
    /\ (Evaluated /\ ~SpecSuccess(mPrev, mArg.text)) =>
          /\ activeMission.isActive
          /\ activeMission.currentStep = mPrev.currentStep
    /\ (mOp \in {"updateMissionState", "improvePrompt"} /\ mPrev.isActive /\ ~activeMission.isActive) =>
          /\ mOp = "updateMissionState"
          /\ mPrev.currentStep + 1 = Len(mPrev.steps)

\* C4 witness: a third failure in a row, and the mission is still Active
C4_Witness ==
    /\ Evaluated
    /\ mPrev.failures = 2
    /\ activeMission.isActive /\ activeMission.failures = 3

\* C5: improvePrompt activates only for BUILD or CRAFT, with no mission
\* active and an example with a non-empty plan retrieved; in every other
\* case the mission is left as it was
C5_Condition ==
    /\ ~mPrev.isActive
    /\ mArg.intent # <<>>
    /\ mArg.intent[1].type = "BUILD" \/ mArg.intent[1].type = "CRAFT"
    /\ \E k \in 1..Len(mArg.info) : Examples[mArg.info[k]].plan # <<>>

C5_ActivationOnly ==
    mOp = "improvePrompt" =>
        /\ (~mPrev.isActive /\ activeMission.isActive) => C5_Condition
        /\ ~C5_Condition => MissionView = mPrev

\* C5 witness: a BUILD intent with a plan-bearing example arrived while a
\* mission was Active at step 1, and the mission is as it was
C5_Witness ==
    /\ mOp = "improvePrompt"
    /\ mPrev.isActive /\ mPrev.currentStep = 1
    /\ mArg.intent = <<[type |-> "BUILD"]>>
    /\ mArg.info = <<2>>
    /\ MissionView = mPrev

\* C6: the plan is copied, never aliased: a mutation of any part of
\* activeMission.steps changes no example, and a mutation of an example
\* changes nothing of the mission
C6_NeverAliased ==
    [][/\ mOp' = "mutateMission" => ExampleView' = ExampleView
       /\ mOp' = "mutateExample" => MissionView' = MissionView]_vars

(***************************************************************************)
(* Properties of the task ledger                                         *)
(***************************************************************************)
Tasks == Load(file)

\* C7: claimTask(agent, summary) called twice in a row, the task of the
\* first call being planning or in_progress, returns the same id both times
\* and the second call adds no task and changes none
C7_IdempotentClaim ==
    [][(/\ lOp = "claimTask" /\ lOp' = "claimTask"
        /\ lArg' = lArg
        /\ lRet[1].status \in {"planning", "in_progress"})
       => (lRet'[1].id = lRet[1].id /\ file' = file)]_vars

\* C8: listActive(excludeAgent = A) returns exactly the tasks that are
\* planning or in_progress and whose agent is not A
C8_ListActiveExact ==
    lOp = "listActive" =>
        /\ \A i \in 1..Len(Tasks) :
              (\E j \in 1..Len(lRet) : lRet[j] = Tasks[i])
                 <=> (/\ Tasks[i].status \in {"planning", "in_progress"}
                      /\ Tasks[i].agent # lArg.excludeAgent)
        /\ \A j \in 1..Len(lRet) : \E i \in 1..Len(Tasks) : lRet[j] = Tasks[i]
        /\ \A j \in 1..Len(lRet) :
              /\ lRet[j].agent # lArg.excludeAgent
              /\ lRet[j].status \notin {"done", "failed"}

\* C8 witness: alice asked for the others' active tasks while the ledger
\* held an active task of her own and an active task of another agent
C8_Witness ==
    /\ lOp = "listActive" /\ lArg.excludeAgent = "alice"
    /\ \E i \in 1..Len(Tasks) : Tasks[i].agent = "alice" /\ Tasks[i].status = "in_progress"
    /\ \E i \in 1..Len(Tasks) : Tasks[i].agent # "alice" /\ Tasks[i].status = "planning"
    /\ Len(lRet) = 1

C10_UniqueIds ==
    \A i, j \in 1..Len(Tasks) : i # j => Tasks[i].id # Tasks[j].id

\* the first task of the file with the given id, 0 if there is none
Located(f, id) == FirstIndex({ i \in 1..Len(Load(f)) : Load(f)[i].id = id })

\* what updateStatus(id, status, extra) is to do between two files
UpdateContract(before, after, ret, ms, id, status, extra) ==
    LET k == Located(before, id)
    IN IF k = 0
       THEN ret = <<>> /\ after = before
       ELSE /\ Len(Load(after)) = Len(Load(before))
            /\ Load(after)[k].status = status
            /\ Load(after)[k].updatedAt = ms
            /\ \A key \in {"lastResponse", "reason", "result"} :
                  Load(after)[k][key] =
                      IF extra[key] # Undef THEN extra[key] ELSE Load(before)[k][key]
            /\ \A key \in {"id", "agent", "intent", "summary", "createdAt"} :
                  Load(after)[k][key] = Load(before)[k][key]
            /\ \A j \in 1..Len(Load(before)) : j # k => Load(after)[j] = Load(before)[j]
            /\ ret = <<Load(after)[k]>>

ClaimLost(p) ==
    /\ proc[p].claimed # <<>>
    /\ Located(file, proc[p].claimed[1]) = 0

\* the status that p's last call wrote on its task is not the one in the file
StatusLost(p) ==
    /\ proc[p].claimed # <<>>
    /\ Located(file, proc[p].claimed[1]) # 0
    /\ Load(file)[Located(file, proc[p].claimed[1])].status # proc[p].wrote

\* C12: what a process's claimTask returned or its updateStatus wrote goes
\* missing from the file only through a save of a record that was loaded
\* before another process's save; with every call loading after the last
\* save nothing is lost
C12_LostOnlyByStaleSave ==
    (\E p \in Procs : ClaimLost(p) \/ StatusLost(p)) => raced

\* C12 witness: both processes are between calls, alice's claimTask
\* returned a task, bob saved last, and alice's task is not in the file
C12_Witness ==
    /\ \A p \in Procs : proc[p].pc = "idle"
    /\ proc["alice"].ret # <<>> /\ proc["alice"].claimed = <<proc["alice"].ret[1].id>>
    /\ ClaimLost("alice")
    /\ ~ClaimLost("bob") /\ ~StatusLost("bob")

(***************************************************************************)
(* Properties of the override chain                                        *)
(***************************************************************************)
Analyzed == cOp = "analyzeTaskRequirements"

\* the bot has an inventory and its listing answers
InventoryKnown == world.inventory /\ ~world.itemsThrow

\* every part of the bot is there and every query answers
SoundBot == InventoryKnown /\ world.registry /\ world.recipes = "known"

Carried(name) == CountInInv(world.items, name)

\* the proposed commands as a reader of the command grammar takes them:
\* the kind of command and its quoted first argument in lower case
Proposal(kind, target) == [kind |-> kind, target |-> target]
Proposed(s) ==
    CASE s = CmdSmelt -> Proposal("smelt", <<"r", "a", "w", "_", "i", "r", "o", "n">>)
      [] s = CmdSmeltLoose -> Proposal("smelt", <<"r", "a", "w", "_", "i", "r", "o", "n">>)
      [] s = CmdAttackMob -> Proposal("attack", <<"z", "o", "m", "b", "i", "e">>)
      [] s = CmdAttackOre -> Proposal("attack", IronOre)
      [] s = CmdAttackFurnace -> Proposal("attack", Furnace)
      [] s = CmdCollectCobble -> Proposal("collect", Cobblestone)
      [] s = CmdSearchCobble -> Proposal("search", Cobblestone)
      [] s = CmdCollectLog -> Proposal("collect", <<"l", "o", "g">>)
      [] s = CmdSearchPlanks -> Proposal("search", <<"p", "l", "a", "n", "k", "s">>)
      [] s = CmdCollectOakLog -> Proposal("collect", OakLog)
      [] s = CmdSearchOakLog -> Proposal("search", OakLog)
      [] s = CmdCollectIronOre -> Proposal("collect", IronOre)
      [] s = CmdCollectStone -> Proposal("collect", Stone)
      [] OTHER -> Proposal("other", <<>>)

Gathering(s) == Proposed(s).kind \in {"collect", "search"}

PlaceFurnace ==
    <<"!", "p", "l", "a", "c", "e", "H", "e", "r", "e", "(", "\"", "f", "u",
      "r", "n", "a", "c", "e", "\"", ")">>
CraftFurnace ==
    <<"!", "c", "r", "a", "f", "t", "R", "e", "c", "i", "p", "e", "(", "\"",
      "f", "u", "r", "n", "a", "c", "e", "\"", ",", " ", "1", ")">>
CollectThreeCobblestone ==
    <<"!", "c", "o", "l", "l", "e", "c", "t", "B", "l", "o", "c", "k", "s",
      "(", "\"", "c", "o", "b", "b", "l", "e", "s", "t", "o", "n", "e", "\"",
      ",", " ", "3", ")">>
CraftIronAxe ==
    <<"!", "c", "r", "a", "f", "t", "R", "e", "c", "i", "p", "e", "(", "\"",
      "i", "r", "o", "n", "_", "a", "x", "e", "\"", ",", " ", "1", ")">>
CollectOneStone ==
    <<"!", "c", "o", "l", "l", "e", "c", "t", "B", "l", "o", "c", "k", "s",
      "(", "\"", "s", "t", "o", "n", "e", "\"", ",", " ", "1", ")">>
CollectAcacia ==
    <<"!", "c", "o", "l", "l", "e", "c", "t", "B", "l", "o", "c", "k", "s",
      "(", "\"", "a", "c", "a", "c", "i", "a", "_", "l", "o", "g", "\"", ",",
      " ", "4", ")">>
SearchAcacia ==
    <<"!", "s", "e", "a", "r", "c", "h", "F", "o", "r", "B", "l", "o", "c",
      "k", "(", "\"", "a", "c", "a", "c", "i", "a", "_", "l", "o", "g", "\"",
      ",", " ", "3", "2", ")">>
CollectTwoCobblestone ==
    <<"!", "c", "o", "l", "l", "e", "c", "t", "B", "l", "o", "c", "k", "s",
      "(", "\"", "c", "o", "b", "b", "l", "e", "s", "t", "o", "n", "e", "\"",
      ",", " ", "2", ")">>

\* the rules of the chain, each with its own trigger: <<>> when it does not match
SmeltRule(s) ==
    IF Proposed(s).kind = "smelt" /\ world.findBlock # "found"
    THEN SmeltGating(world, world.items) ELSE <<>>

AttackRule(s) ==
    LET t == Proposed(s).target
    IN IF /\ Proposed(s).kind = "attack"
          /\ \/ \E h \in BlockHints : \E i \in 1..Len(t) : \E j \in i..Len(t) : SubSeq(t, i, j) = h
             \/ world.registry /\ t \in BlockNames
       THEN Override("attack: collect", Command2(collectBlocks, t, 1)) ELSE <<>>

CobblestoneRule(s) ==
    IF Gathering(s) /\ world.registry /\ Proposed(s).target = Cobblestone
    THEN Override("cobblestone: mine stone",
                  IF s = CmdCollectCobble THEN CollectTwelveStone ELSE CollectOneStone)
    ELSE <<>>

GenericWoodRule(s) ==
    IF Gathering(s) /\ world.registry /\ Proposed(s).target \in GenericWood
    THEN Override("generic wood",
                  IF Proposed(s).kind = "search" THEN SearchAcacia ELSE CollectAcacia)
    ELSE <<>>

ShortcutRule(s) ==
    IF /\ Gathering(s) /\ world.registry
       /\ IsWoodTask(Proposed(s).target)
       /\ Carried(IronIngot) >= 3 /\ Carried(Stick) >= 2
    THEN Override("shortcut: craft iron axe", CraftIronAxe) ELSE <<>>

ToolRule(s) ==
    IF Gathering(s) /\ world.registry
    THEN ToolGating(world, world.items, Proposed(s).target) ELSE <<>>

\* the override of the first rule of the chain that produces one
RECURSIVE FirstProduced(_)
FirstProduced(chain) ==
    IF chain = <<>> THEN <<>>
    ELSE IF chain[1] # <<>> THEN chain[1]
    ELSE FirstProduced(Tail(chain))

\* C13 as stated: at most one Override, that of the earliest matching rule
\* among smelt gating, attack/mine misuse, generic resource (wood)
\* disambiguation, shortcut when materials ready, tool gating, and no
\* override from anything else
C13_AsStated ==
    (Analyzed /\ InventoryKnown /\ cRet # Throws) =>
        /\ Len(cRet) <= 1
        /\ cRet = FirstProduced(<<SmeltRule(cArg), AttackRule(cArg), GenericWoodRule(cArg),
                                  ShortcutRule(cArg), ToolRule(cArg)>>)

\* C13 amended: the chain has a sixth rule, cobblestone to stone, between
\* attack/mine misuse and generic wood disambiguation; a call that returns
\* returns at most one Override, that of the earliest matching rule of the
\* six, and nothing when the bot has no inventory
C13_FirstMatch ==
    (Analyzed /\ cRet # Throws) =>
        /\ Len(cRet) <= 1
        /\ cRet = IF world.inventory
                  THEN FirstProduced(<<SmeltRule(cArg), AttackRule(cArg), CobblestoneRule(cArg),
                                       GenericWoodRule(cArg), ShortcutRule(cArg), ToolRule(cArg)>>)
                  ELSE <<>>

\* C13 witness: a collect of generic "log" with the iron axe materials in
\* the inventory matched both the generic wood rule and the shortcut, and
\* the override is the generic wood one
C13_Witness ==
    /\ Analyzed /\ cArg = CmdCollectLog /\ SoundBot
    /\ GenericWoodRule(cArg) # <<>> /\ ShortcutRule(cArg) # <<>>
    /\ cRet # <<>> /\ cRet[1].command = CollectAcacia

\* C14: for a smelt command with no furnace found nearby the override is
\* place-furnace if the inventory holds a furnace; otherwise, with c
\* cobblestone and c < 8, collect exactly 8 - c cobblestone (3 when c = 5);
\* otherwise craft a furnace; with a furnace nearby there is no override
C14_SmeltGating ==
    (Analyzed /\ InventoryKnown /\ Proposed(cArg).kind = "smelt") =>
        IF world.findBlock = "found" THEN cRet = <<>>
        ELSE /\ Len(cRet) = 1
             /\ cRet[1].command =
                   IF Carried(Furnace) > 0 THEN PlaceFurnace
                   ELSE IF Carried(Cobblestone) < 8
                        THEN <<"!">> \o collectBlocks \o <<"(", "\"">> \o Cobblestone
                                 \o <<"\"", ",", " ", DigitChars[8 - Carried(Cobblestone) + 1], ")">>
                        ELSE CraftFurnace
             /\ (Carried(Furnace) = 0 /\ Carried(Cobblestone) = 5)
                   => cRet[1].command = CollectThreeCobblestone

\* C14 witness: smelt with no furnace nearby or carried and 5 cobblestone
\* in two stacks was overridden to collect 3 cobblestone
C14_Witness ==
    /\ Analyzed /\ cArg = CmdSmelt /\ InventoryKnown
    /\ world.findBlock = "none"
    /\ Carried(Furnace) = 0 /\ Carried(Cobblestone) = 5 /\ Len(world.items) >= 2
    /\ cRet # <<>> /\ cRet[1].command = CollectThreeCobblestone

\* a collect or search command whose target is a wood, log or plank resource
WoodCollection(s) ==
    Gathering(s) /\ IsWoodTask(Proposed(s).target)

\* C15 as stated: with iron_ingot >= 3 and stick >= 2 carried, every
\* wood-collection command is overridden to the craft-iron-axe command
C15_AsStated ==
    (Analyzed /\ SoundBot /\ WoodCollection(cArg)
        /\ Carried(IronIngot) >= 3 /\ Carried(Stick) >= 2)
    => (Len(cRet) = 1 /\ cRet[1].command = CraftIronAxe)

\* C15 amended: as stated for the targets that are not one of the generic
\* names log, logs, wood, plank, planks, wooden_planks; those are overridden
\* to acacia_log first
C15_ShortcutForSpecificWood ==
    (Analyzed /\ InventoryKnown /\ world.registry /\ WoodCollection(cArg)
        /\ Carried(IronIngot) >= 3 /\ Carried(Stick) >= 2)
    => /\ Len(cRet) = 1
       /\ cRet[1].command = IF Proposed(cArg).target \in GenericWood
                            THEN (IF Proposed(cArg).kind = "search"
                                  THEN SearchAcacia ELSE CollectAcacia)
                            ELSE CraftIronAxe

\* C15 witness: a search for oak_log with 3 iron ingots and 2 sticks carried
\* was overridden to craft the iron axe
C15_Witness ==
    /\ Analyzed /\ cArg = CmdSearchOakLog /\ SoundBot
    /\ Carried(IronIngot) = 3 /\ Carried(Stick) = 2
    /\ cRet # <<>> /\ cRet[1].command = CraftIronAxe

\* the ingredients of the recipe of a tool, as the recipe book has them
Ingredients(tool) ==
    CASE tool = WoodenPickaxe -> <<[name |-> OakPlanks, count |-> 3], [name |-> Stick, count |-> 2]>>
      [] tool = StonePickaxe -> <<[name |-> Cobblestone, count |-> 3], [name |-> Stick, count |-> 2]>>
      [] tool = IronPickaxe -> <<[name |-> IronIngot, count |-> 3], [name |-> Stick, count |-> 2]>>

\* the tools that harvest a block, the first of them being the one to craft
AcceptedTools(block) ==
    CASE block \in {Stone, Cobblestone, Furnace} -> <<WoodenPickaxe, StonePickaxe, IronPickaxe>>
      [] block = IronOre -> <<StonePickaxe, IronPickaxe>>
      [] OTHER -> <<>>

\* what tool gating is to return for a target that needs a tool
ToolGatingContract(target) ==
    LET tools == AcceptedTools(target)
        held == \E k \in 1..Len(tools) : Carried(tools[k]) > 0
        needs == Ingredients(tools[1])
        missing == { k \in 1..Len(needs) : Carried(needs[k].name) < needs[k].count }
    IN IF held THEN cRet = <<>>
       ELSE /\ Len(cRet) = 1
            /\ IF missing = {}
               THEN cRet[1].command = Command2(craftRecipe, tools[1], 1)
               ELSE LET need == needs[FirstIndex(missing)]
                    IN /\ need.count - Carried(need.name) >= 1
                       /\ cRet[1].command =
                             Command2(collectBlocks, need.name, need.count - Carried(need.name))

\* C16 as stated: for a collect/search command whose target needs a
\* harvesting tool, no override when an accepted tool is carried, else craft
\* the tool when its ingredients are all there, else collect the first
\* missing ingredient in the amount of its shortfall
C16_AsStated ==
    (Analyzed /\ SoundBot /\ Gathering(cArg) /\ AcceptedTools(Proposed(cArg).target) # <<>>)
    => ToolGatingContract(Proposed(cArg).target)

\* C16 amended: as stated when no earlier rule of the chain takes the
\* command, that is for a target other than cobblestone
C16_ToolGating ==
    (Analyzed /\ SoundBot /\ Gathering(cArg) /\ AcceptedTools(Proposed(cArg).target) # <<>>
        /\ CobblestoneRule(cArg) = <<>> /\ GenericWoodRule(cArg) = <<>> /\ ShortcutRule(cArg) = <<>>)
    => ToolGatingContract(Proposed(cArg).target)

\* C16 witness: a collect of iron_ore with no pickaxe and 1 cobblestone
\* carried was overridden to collect the 2 cobblestone the stone pickaxe
\* lacks, not its sticks
C16_Witness ==
    /\ Analyzed /\ cArg = CmdCollectIronOre /\ SoundBot
    /\ Carried(StonePickaxe) = 0 /\ Carried(Cobblestone) = 1 /\ Carried(Stick) = 0
    /\ cRet # <<>> /\ cRet[1].command = CollectTwoCobblestone

\* C17: no failing world query makes analyzeTaskRequirements or
\* applyTaskOverrides raise, and the rule whose query failed counts as not
\* matching: a smelt command whose nearby-block search fails gets what the
\* rest of the chain gives it, which is nothing
C17_QueryFailuresCaught ==
    /\ Analyzed => cRet # Throws
    /\ cOp = "applyTaskOverrides" => ~cRet.raised
    /\ (Analyzed /\ InventoryKnown /\ Proposed(cArg).kind = "smelt" /\ world.findBlock = "throws")
          => cRet = <<>>

(***************************************************************************)
(* The normalizer's contract.                                              *)
(***************************************************************************)
Normalized == cOp = "normalizeCommandsInResponse"

\* text holds exactly the characters of word from index p on
Spells(text, p, word) ==
    /\ p >= 1
    /\ p + Len(word) - 1 <= Len(text)
    /\ SubSeq(text, p, p + Len(word) - 1) = word

\* the index of the double quote that closes the one at p, 0 if none
ClosingQuote(text, p) ==
    IF \E q \in (p + 1)..Len(text) : text[q] = "\""
    THEN CHOOSE q \in (p + 1)..Len(text) :
             text[q] = "\"" /\ \A j \in (p + 1)..(q - 1) : text[j] # "\""
    ELSE 0

\* the index where an integer literal that starts at p ends, 0 if none
IntegerEnd(text, p) ==
    LET d == IF p <= Len(text) /\ text[p] \in {"-", "+"} THEN p + 1 ELSE p
        e == RunEnd(text, d, Digits)
    IN IF e >= d THEN e ELSE 0

\* the index where a literal of the type that starts at p ends, 0 if none
LiteralEnd(text, p, type) ==
    CASE type = "string" ->
            IF p <= Len(text) /\ text[p] = "\"" THEN ClosingQuote(text, p) ELSE 0
      [] type = "boolean" ->
            IF Spells(text, p, <<"t", "r", "u", "e">>) THEN p + 3
            ELSE IF Spells(text, p, <<"f", "a", "l", "s", "e">>) THEN p + 4
            ELSE 0
      [] type = "int" -> IntegerEnd(text, p)
      [] type = "float" ->
            LET e == IntegerEnd(text, p)
            IN IF e # 0 /\ e + 2 <= Len(text) /\ text[e + 1] = "."
                  /\ RunEnd(text, e + 2, Digits) >= e + 2
               THEN RunEnd(text, e + 2, Digits) ELSE e
      [] OTHER -> 0

\* from index p on, text is one literal per parameter from the k-th on,
\* separated by ", " and closed by ")"
RECURSIVE ArgumentsConform(_, _, _, _)
ArgumentsConform(text, p, params, k) ==
    LET e == LiteralEnd(text, p, params[k].type)
    IN /\ e # 0
       /\ IF k = Len(params)
          THEN Spells(text, e + 1, <<")">>)
          ELSE /\ Spells(text, e + 1, <<",", " ">>)
               /\ ArgumentsConform(text, e + 3, params, k + 1)

\* every command of the text that has declared parameters is written with
\* exactly those, well-formed
SchemaConformant(text) ==
    \A i \in 1..Len(text) :
        (/\ text[i] = "!"
         /\ RunEnd(text, i + 1, WordChars) > i
         /\ ActionParams(ToLower(SubSeq(text, i + 1, RunEnd(text, i + 1, WordChars)))) # NoParams)
        => LET e == RunEnd(text, i + 1, WordChars)
           IN /\ Spells(text, e + 1, <<"(">>)
              /\ ArgumentsConform(text, e + 2,
                     ActionParams(ToLower(SubSeq(text, i + 1, e))), 1)

\* C18: every command in the normalizer's output whose name has declared
\* parameters carries exactly one well-formed argument per parameter, in
\* declaration order.
C18_SchemaConformant ==
    (Normalized /\ TruthyText(cRet)) => SchemaConformant(cRet)

\* the calls whose arguments are all present and well-formed for their types
WellFormedNumbers(type) ==
    IF type = "float" THEN {NumTwo, NumMinusThree, NumDecimal} ELSE {NumTwo, NumMinusThree}
LooseCalls ==
    { Call(craftRecipe, <<s, n>>) :
          s \in {StickBare, StickSingle, StickDouble}, n \in WellFormedNumbers("int") }
    \cup { Call(searchForBlock, <<s, n>>) :
          s \in {OreBare, OreDouble}, n \in WellFormedNumbers("float") }
    \cup { Call(setMode, <<ModeBare, BoolTrue>>) }

\* the value of a written string without its quotes
Bare(arg) ==
    IF Len(arg) >= 2 /\ arg[1] \in Quotes /\ arg[Len(arg)] = arg[1]
    THEN SubSeq(arg, 2, Len(arg) - 1) ELSE arg

\* the canonical form of a call of LooseCalls
Canonical(c) ==
    <<"!">> \o c.name \o <<"(", "\"">> \o Bare(c.args[1]) \o <<"\"", ",", " ">>
        \o c.args[2] \o <<")">>

CraftStickLoose ==
    <<"!", "c", "r", "a", "f", "t", "R", "e", "c", "i", "p", "e", "(", "s",
      "t", "i", "c", "k", " ", "2", ")">>
CraftStickCanonical ==
    <<"!", "c", "r", "a", "f", "t", "R", "e", "c", "i", "p", "e", "(", "\"",
      "s", "t", "i", "c", "k", "\"", ",", " ", "2", ")">>

\* C19: a call with well-formed arguments, however loosely written, comes
\* out in canonical form with every argument's value and order kept, and
\* !craftRecipe(stick 2) comes out as !craftRecipe("stick", 2).
C19_LooseArgumentsKept ==
    Normalized =>
        /\ \A c \in LooseCalls, w \in Writings :
               cArg = Written(c, w) => cRet = Canonical(c)
        /\ cArg = CraftStickLoose => cRet = CraftStickCanonical

\* text holds !startConversation somewhere
Invokes(text) ==
    \E i \in 1..Len(text) : Spells(text, i, <<"!">> \o startConversation)

\* C20: a text that holds a start-conversation invocation anywhere is
\* normalized to the empty text.
C20_ConversationSuppressed ==
    (Normalized /\ cArg # UndefinedText /\ Invokes(cArg)) => cRet = <<>>

\* C20 witness: the invocation follows another command and the result is
\* empty.
C20_Witness ==
    /\ Normalized
    /\ Invokes(cArg)
    /\ Spells(cArg, 1, <<"!">> \o craftRecipe)
    /\ cRet = <<>>

\* the names of the commands that text holds, in lower case
CommandNames(text) ==
    { ToLower(SubSeq(text, i + 1, RunEnd(text, i + 1, WordChars))) :
          i \in { j \in 1..Len(text) :
                      text[j] = "!" /\ RunEnd(text, j + 1, WordChars) > j } }

\* C21: a text whose commands all lack declared parameters comes out of the
\* normalizer character for character as it went in.
C21_UnknownLeftUnmodified ==
    (/\ Normalized
     /\ TruthyText(cArg)
     /\ CommandNames(cArg) # {}
     /\ ToLower(startConversation) \notin CommandNames(cArg)
     /\ \A n \in CommandNames(cArg) : ActionParams(n) = NoParams)
    => cRet = cArg

\* C27: a mission of n >= 1 steps whose every evaluated output held the
\* current step's first candidate command and no failure keyword is Active
\* at step k after k < n evaluations, and Idle with currentStep = 0,
\* failures = 0 and no steps after exactly n.
C27_CooperativeTermination ==
    (coop.n >= 1 /\ coop.k >= 0) =>
        IF coop.k < coop.n
        THEN /\ activeMission.isActive
             /\ activeMission.currentStep = coop.k
             /\ Len(activeMission.steps) = coop.n
        ELSE /\ coop.k = coop.n
             /\ ~activeMission.isActive
             /\ activeMission.currentStep = 0
             /\ activeMission.failures = 0
             /\ activeMission.steps = <<>>

\* C27 witness: the second obeyed evaluation of a two-step plan has just
\* reset the mission.
C27_Witness ==
    /\ mOp = "updateMissionState"
    /\ coop = [n |-> 2, k |-> 2]
    /\ mPrev.isActive /\ mPrev.currentStep = 1
    /\ ~activeMission.isActive

\* C24: on a ledger file that is missing, not JSON, or JSON that is not an
\* object with a task list, no operation raises: listActive returns no
\* tasks, updateStatus returns null, and claimTask returns a new task.
C24_CorruptAsEmpty ==
    [][ (~WellFormed(file) /\ lOp' \in {"listActive", "updateStatus", "claimTask"}) =>
           /\ lRet' # LedgerRaised
           /\ lOp' \in {"listActive", "updateStatus"} => lRet' = <<>>
           /\ lOp' = "claimTask" =>
                  /\ Len(lRet') = 1
                  /\ lRet'[1].status \in Statuses
                  /\ lRet'[1].id = <<now, lRet'[1].id[2]>> ]_vars

(***************************************************************************)
(* C22: classification makes one attempt and, whenever the model call      *)
(* fails or its text holds no well-formed payload with type and subtype,   *)
(* returns exactly {type: GENERAL, subtype: unknown}.                      *)
(***************************************************************************)
\* the replies that hold a well-formed payload with both keys
PayloadReplies == {ReplyBuild, ReplyCraft}

\* the turn classified its utterance
Classified == turn.number > 0 /\ turn.intent # <<>>

\* C22: in every turn that classified an utterance on a reply without such
\* a payload, the intent is the fallback {GENERAL, unknown}
C22_FallbackOnFailure ==
    (Classified /\ turn.reply \notin PayloadReplies)
        => /\ turn.intent[1].type = FallbackIntent.type
           /\ turn.intent[1].subtype = FallbackIntent.subtype

(***************************************************************************)
(* C23: no failure of a collaborator is turn-fatal: sendRequest returns a  *)
(* result whatever fails during the turn.                                  *)
(***************************************************************************)
\* C23: every turn returns; no exception leaves sendRequest
C23_NoTurnFatal == turn.raisedAt = ""

(***************************************************************************)
(* C25: the order of the steps within one sendRequest turn.                *)
(***************************************************************************)
\* the steps in the order of the statements of sendRequest
TurnOrder ==
    <<"updateMissionState", "classify", "getRelevantInfo", "listActive", "activate",
      "analyzeTaskRequirements", "claimTask", "respond", "updateStatus",
      "saveRelevantInfo", "normalize", "applyTaskOverrides">>

Position(step) == FirstIndex({ i \in 1..Len(TurnOrder) : TurnOrder[i] = step })

Before(trace, a, b) ==
    \A i, j \in 1..Len(trace) : (trace[i] = a /\ trace[j] = b) => i < j

\* the task this enhancer holds is in the ledger, claimed or in progress
HeldTaskActive ==
    \E i \in 1..Len(Load(file)) :
        Load(file)[i].id = lastClaimedTaskId /\ IsActiveStatus(Load(file)[i].status)

\* C25 (amended): the steps of a turn run in the order mission update,
\* classification, retrieval, team context, mission start, override of the
\* candidate command, claim of the ledger task, model response, in-progress
\* mark, memory, normalizer, override of the response; a turn whose response
\* request fails has already claimed its task
C25_TurnOrder ==
    /\ \A i, j \in 1..Len(turn.trace) :
           i < j => Position(turn.trace[i]) < Position(turn.trace[j])
    /\ \A i \in 1..Len(turn.trace) : Position(turn.trace[i]) # 0
    /\ (turn.op = "sendRequest" /\ turn.raisedAt = "innerEnhancer.sendRequest"
            /\ turn.intent # <<>>) => HeldTaskActive

\* C25: a turn that ran every step, claim and mark included
C25_Witness ==
    /\ turn.raisedAt = ""
    /\ turn.trace = TurnOrder

\* C25 (as stated): the ledger is claimed and marked only after the model
\* produced the text and the normalizer repaired it
C25_LedgerUpdatedLast ==
    /\ Before(turn.trace, "respond", "claimTask")
    /\ Before(turn.trace, "normalize", "claimTask")
    /\ Before(turn.trace, "normalize", "updateStatus")

(***************************************************************************)
(* C26: the classifier runs only when no mission is active.                *)
(***************************************************************************)
\* the requests the turn sent to the model
ModelRequests(trace) == { i \in 1..Len(trace) : trace[i] \in {"classify", "respond"} }

\* C26: a turn whose mission is Active after the mission-state update sends
\* no classification request, hence at most one model request
C26_ClassifierOnlyWhenIdle ==
    (turn.number > 0 /\ turn.afterUpdate.isActive)
        => /\ \A i \in 1..Len(turn.trace) : turn.trace[i] # "classify"
           /\ Cardinality(ModelRequests(turn.trace)) <= 1

(***************************************************************************)
(* C28: obeying the prompt makes progress.                                 *)
(***************************************************************************)
\* the step is a sendRequest turn on the prior output mArg'.text
TurnTaken == turn'.number = turn.number + 1

\* the mission update of the turn moved past the step that was current
StepAdvanced ==
    \/ ~turn'.afterUpdate.isActive
    \/ turn'.afterUpdate.currentStep = activeMission.currentStep + 1

\* C28: when the last turn returned with a MANDATORY COMMAND in its prompt
\* and the output evaluated by this turn holds that command and no failure
\* keyword, the mission update of this turn advances currentStep
C28_ObeyingAdvances ==
    [][ (/\ TurnTaken
         /\ turn.number > 0 /\ turn.raisedAt = ""
         /\ activeMission.isActive
         /\ Includes(mArg'.text, turn.mandatory)
         /\ NoFailureKeyword(mArg'.text))
        => StepAdvanced ]_vars

(***************************************************************************)
(* C29: a completed mission stays completed.                               *)
(***************************************************************************)
\* the mission update of this turn reset the mission that was active
ResetThisTurn == activeMission.isActive /\ ~turn'.afterUpdate.isActive

\* C29: a turn whose mission update resets the finished mission, and whose
\* latest user utterance is the one of the turn before, ends with the
\* mission Idle
C29_CompletedStaysIdle ==
    [][ (TurnTaken /\ ResetThisTurn /\ turn'.utterance = turn.utterance)
        => ~activeMission'.isActive ]_vars

(***************************************************************************)
(* C30: terminal ledger statuses are final in the agent's turn flow.       *)
(***************************************************************************)
IsTerminalStatus(st) == st = "done" \/ st = "failed"

\* C30: no sendRequest turn changes the status of a task that is done or
\* failed
C30_TerminalFinal ==
    [][ TurnTaken
        => \A i \in 1..Len(Load(file)) :
               IsTerminalStatus(Load(file)[i].status)
                   => Load(file')[i].status = Load(file)[i].status ]_vars

====
